---- MODULE Spec2Model ----
(***************************************************************************)
(* State-machine model of the acr122u contactless-card library:            *)
(*   - package desfire    (enveloped framing, GetVersion, AES/3DES         *)
(*                         mutual authentication, session, application     *)
(*                         selection and listing, ReadData, WriteData)     *)
(*   - package ultralight (native framing, ReadPage, ReadPages, WritePage, *)
(*                         WriteUserMemory, 3DES authentication,           *)
(*                         SetAuthConfig, ChangeKey, ReadKey)              *)
(*   - package hardware   (Reader.Connect and card identification)         *)
(*   - package database   (LoadFromFile, Detect, DetectWithPartialMatch)   *)
(*   - package classic    (ChangeKeys, GetSectorTrailerBlock,              *)
(*                         TryStandardKeys)                                *)
(* The card is the environment.  For the desfire and ultralight objects    *)
(* every answer of card.Transmit is drawn from a finite set of byte        *)
(* strings (or is a transport error); for the Reader a card is given by    *)
(* its answer to each exchange and may leave the field at any exchange.    *)
(***************************************************************************)
EXTENDS Integers, Sequences, FiniteSets, TLC

VARIABLES
    session,     \* desfire: DESFire.session (NoSession models nil)
    dfPc,        \* desfire: position of each caller inside its operation
    dfLoc,       \* desfire: local variables of each caller's operation
    dfRet,       \* desfire: what the caller's last operation returned
    dfTrx,       \* desfire: the Transceive calls of each caller's operation so far
    wire,        \* frames handed to card.Transmit since the current operation began
    ucAuth,      \* ultralight: UltralightC.authenticated
    ucKey,       \* ultralight: UltralightC.key
    ucPc,        \* ultralight: position inside the running operation
    ucLoc,       \* ultralight: local variables of the running operation
    ucRet,       \* ultralight: what the last operation returned
    ucTrx,       \* ultralight: the Transceive calls of the operation so far
    rd,          \* hardware: the Reader's fields (cardInfo, block0, page0..page3)
    rdPc,        \* hardware: position inside Connect
    rdLoc,       \* hardware: local variables of Connect / detectCardType
    rdRet,       \* hardware: what the last Connect returned
    card,        \* hardware: the card in the field (how it answers each exchange)
    present,     \* hardware: the card is still in the field
    db,          \* database: CardDatabase.entries
    dbRet,       \* database: the last call on the database and what it returned
    rot,         \* the byte string handed to rotateLeft and the results so far
    clPc,        \* classic: position inside the running operation
    clLoc,       \* classic: arguments and local variables of the running operation
    clRet        \* classic: what the last operation returned

vars == <<session, dfPc, dfLoc, dfRet, dfTrx, wire,
          ucAuth, ucKey, ucPc, ucLoc, ucRet, ucTrx,
          rd, rdPc, rdLoc, rdRet, card, present, db, dbRet, rot,
          clPc, clLoc, clRet>>

dfVars == <<session, dfPc, dfLoc, dfRet, dfTrx>>
ucVars == <<ucAuth, ucKey, ucPc, ucLoc, ucRet, ucTrx>>
rdVars == <<rd, rdPc, rdLoc, rdRet, card, present>>
fnVars == <<db, dbRet, rot>>
clVars == <<clPc, clLoc, clRet>>

---------------------------------------------------------------------------
(* Bytes and byte strings                                                  *)

Byte == 0..255

\* byte(x): Go's conversion of an int to a byte
ToByte(x) == x % 256

\* a ^ b on bytes
Xor8(a, b) ==
    LET bit(x, i) == (x \div (2 ^ i)) % 2
        d(i) == IF bit(a, i) = bit(b, i) THEN 0 ELSE 2 ^ i
    IN  d(0) + d(1) + d(2) + d(3) + d(4) + d(5) + d(6) + d(7)

XorBytes(x, y) == [i \in 1..Len(x) |-> Xor8(x[i], y[i])]

\* bytes.Repeat([]byte{b}, n)
Repeat(b, n) == [i \in 1..n |-> b]

\* s[lo:hi] with Go's zero-based half-open bounds
Slice(s, lo, hi) == SubSeq(s, lo + 1, hi)

\* the bytes first, first+1, ... (n of them), a recognisable test pattern
Ramp(first, n) == [i \in 1..n |-> ToByte(first + i - 1)]

\* a transport answer: either an I/O error or the bytes the card returned
TransmitError == [ok |-> FALSE, data |-> <<>>]
Answer(bytes) == [ok |-> TRUE, data |-> bytes]

\* an (value, error) result of an operation
Ok(v)  == [err |-> FALSE, val |-> v]
Err    == [err |-> TRUE,  val |-> <<>>]

---------------------------------------------------------------------------
(* The ciphers of package crypto, as the library uses them.  A block       *)
(* cipher is a keyed bijection on blocks; CBC chaining is modelled as the  *)
(* library computes it.                                                    *)

AESBlockSize == 16
DESBlockSize == 8

\* aes.NewCipher accepts 16, 24 and 32 byte keys
aesNewCipherOk(key) == Len(key) \in {16, 24, 32}

\* des.NewTripleDESCipher accepts 24 byte keys only (KeySizeError otherwise)
NewTripleDESCipherOk(key) == Len(key) = 24

KeyByte(key, i) == key[((i - 1) % Len(key)) + 1]

\* cipher.Block.Encrypt / Decrypt on one block
BlockEncrypt(key, blk) ==
    [i \in 1..Len(blk) |-> (blk[i] + KeyByte(key, i) + i) % 256]
BlockDecrypt(key, blk) ==
    [i \in 1..Len(blk) |-> (blk[i] + 512 - KeyByte(key, i) - i) % 256]

\* cipher.NewCBCEncrypter(block, iv).CryptBlocks(dst, data)
RECURSIVE CBCEncrypt(_, _, _, _)
CBCEncrypt(key, iv, data, bs) ==
    IF Len(data) = 0 THEN <<>>
    ELSE LET c == BlockEncrypt(key, XorBytes(SubSeq(data, 1, bs), iv))
         IN  c \o CBCEncrypt(key, c, SubSeq(data, bs + 1, Len(data)), bs)

\* cipher.NewCBCDecrypter(block, iv).CryptBlocks(dst, data)
RECURSIVE CBCDecrypt(_, _, _, _)
CBCDecrypt(key, iv, data, bs) ==
    IF Len(data) = 0 THEN <<>>
    ELSE LET c == SubSeq(data, 1, bs)
         IN  XorBytes(BlockDecrypt(key, c), iv)
                 \o CBCDecrypt(key, c, SubSeq(data, bs + 1, Len(data)), bs)

---------------------------------------------------------------------------
(* package desfire: helper functions                                       *)

\* a faulty append(s, t...): the new frame replaces what was gathered
append_overwriting(s, t) == t

\* append(s, t...)
append(s, t) == s \o t

\* a faulty bytes.Equal: only the first byte is compared
bytesEqual_firstByteOnly(a, b) == Len(a) = Len(b) /\ (Len(a) > 0 => a[1] = b[1])

\* bytes.Equal
bytesEqual(a, b) == a = b

\* a faulty rotateLeft: the first byte is not carried to the end
rotateLeft_firstByteDropped(data) ==
    IF Len(data) = 0 THEN data
    ELSE [i \in 1..Len(data) |-> IF i < Len(data) THEN data[i + 1] ELSE \h00]

\* desfire.rotateLeft
rotateLeft(data) ==
    IF Len(data) = 0 THEN data
    ELSE [i \in 1..Len(data) |-> IF i < Len(data) THEN data[i + 1] ELSE data[1]]

\* desfire.padData
padData(data, blockSize) ==
    LET padding0 == blockSize - (Len(data) % blockSize)
        padding  == IF padding0 = 0 THEN blockSize ELSE padding0
    IN  data \o Repeat(ToByte(padding), padding)

\* desfire.encryptAES
encryptAES(data, key) ==
    IF ~aesNewCipherOk(key) THEN Err
    ELSE Ok(CBCEncrypt(key, Repeat(0, AESBlockSize),
                       padData(data, AESBlockSize), AESBlockSize))

\* desfire.decryptAES
decryptAES(data, key) ==
    IF ~aesNewCipherOk(key) THEN Err
    ELSE IF Len(data) % AESBlockSize # 0 THEN Err
    ELSE Ok(CBCDecrypt(key, Repeat(0, AESBlockSize), data, AESBlockSize))

\* desfire.encrypt3DES
encrypt3DES(data, key) ==
    IF Len(key) # 16 /\ Len(key) # 24 THEN Err
    ELSE IF ~NewTripleDESCipherOk(key) THEN Err
    ELSE Ok(CBCEncrypt(key, Repeat(0, DESBlockSize),
                       padData(data, DESBlockSize), DESBlockSize))

\* desfire.decrypt3DES
decrypt3DES(data, key) ==
    IF Len(key) # 16 /\ Len(key) # 24 THEN Err
    ELSE IF ~NewTripleDESCipherOk(key) THEN Err
    ELSE Ok(CBCDecrypt(key, Repeat(0, DESBlockSize), data, DESBlockSize))


---------------------------------------------------------------------------
(* package desfire: constants, framing                                     *)

CmdAuthenticateISO     == \h1A
CmdAuthenticateAES     == \hAA
CmdGetVersion          == \h60
CmdAdditionalFrame     == \hAF
StatusSuccess          == \h00
StatusAdditionalFrame  == \hAF
KeyType3DES            == \h01
KeyTypeAES             == \h03

\* DESFire.Transceive, up to card.Transmit: the APDU built around cmd
DESFire_Transceive_apdu(cmd) ==
    <<\h90, cmd[1], \h00, \h00>>
        \o (IF Len(cmd) > 1 THEN <<ToByte(Len(cmd) - 1)>> \o Tail(cmd)
                            ELSE <<\h00>>)
        \o <<\h00>>

\* a faulty DESFire.Transceive: every status under 0x91 counts as success
DESFire_Transceive_anyVendorStatus(r) ==
    IF ~r.ok \/ Len(r.data) < 2 THEN Err
    ELSE IF r.data[Len(r.data) - 1] = \h91
            \/ (r.data[Len(r.data) - 1] = \h90 /\ r.data[Len(r.data)] = \h00)
    THEN Ok(SubSeq(r.data, 1, Len(r.data) - 2))
    ELSE Err

\* DESFire.Transceive, from card.Transmit's return on: (payload, error)
DESFire_Transceive(r) ==
    IF ~r.ok THEN Err
    ELSE LET response == r.data
             n == Len(response)
         IN  IF n < 2 THEN Err
             ELSE LET sw1 == response[n - 1]
                      sw2 == response[n]
                  IN  IF sw1 = \h91
                      THEN IF sw2 # StatusSuccess /\ sw2 # StatusAdditionalFrame
                           THEN Err
                           ELSE Ok(Slice(response, 0, n - 2))
                      ELSE IF sw1 = \h90 /\ sw2 = \h00
                      THEN Ok(Slice(response, 0, n - 2))
                      ELSE Err

\* the value of DESFire.session: nil, or the SessionKey it points to
NoSession ==
    [live |-> FALSE, keyType |-> 0, key |-> <<>>, sessionKey |-> <<>>,
     iv |-> <<>>, cmdCounter |-> 0]
\* a faulty session: a session that is live is kept, not replaced
SessionKey_firstWriterWins(keyType, key, sessionKey, ivLen) ==
    IF session.live THEN session
    ELSE [live |-> TRUE, keyType |-> keyType, key |-> key, sessionKey |-> sessionKey,
          iv |-> Repeat(0, ivLen), cmdCounter |-> 0]
\* a faulty session: the command counter does not start at 0
SessionKey_counterOne(keyType, key, sessionKey, ivLen) ==
    [live |-> TRUE, keyType |-> keyType, key |-> key, sessionKey |-> sessionKey,
     iv |-> Repeat(0, ivLen), cmdCounter |-> 1]
SessionKey(keyType, key, sessionKey, ivLen) ==
    [live |-> TRUE, keyType |-> keyType, key |-> key, sessionKey |-> sessionKey,
     iv |-> Repeat(0, ivLen), cmdCounter |-> 0]

---------------------------------------------------------------------------
(* The callers of the desfire object and the card's answers                *)

Callers == {1, 2}

NoLoc  == [op |-> "none", key |-> <<>>, rndA |-> <<>>, rndB |-> <<>>,
           fullVersion |-> <<>>, args |-> <<>>, result |-> <<>>,
           data |-> <<>>]
\* what a call returned: nothing yet, a value, or an error with its message
NoRet  == [state |-> "none", val |-> <<>>, why |-> ""]
Running == [state |-> "running", val |-> <<>>, why |-> ""]
RetOk(v) == [state |-> "ok", val |-> v, why |-> ""]
RetErrOf(why) == [state |-> "err", val |-> <<>>, why |-> why]
RetErr == RetErrOf("error")
\* the Transceive calls of the running operation, each a record
\* [resp: what card.Transmit returned, res: what Transceive returned]
NoTrx  == <<>>
Last(s) == s[Len(s)]

\* keys a caller may pass
KeyAESZero == Repeat(0, 16)
KeyAESRamp == Ramp(0, 16)
Key2K3DES  == Ramp(\h40, 16)
Key3K3DES  == Ramp(\h10, 24)
KeyShort   == Ramp(1, 8)
Keys       == {KeyAESZero, KeyAESRamp, Key2K3DES, Key3K3DES, KeyShort}
KeyNos     == {0, 1}

\* the challenges the host's rand.Read and the card may draw
Challenges(bs) == {Ramp(0, bs), Repeat(\hA5, bs)}

\* what a card holding key answers: one block, CBC with zero IV, no padding
CardEncrypt(key, blk) == CBCEncrypt(key, Repeat(0, Len(blk)), blk, Len(blk))

\* s with byte i changed
Mutate(s, i) == [s EXCEPT ![i] = Xor8(s[i], 1)]

\* answers that fail an enveloped exchange, and one that is too short to use
FailingAnswers ==
    {TransmitError, Answer(<<>>), Answer(<<\h91>>), Answer(<<\h91, \hAE>>),
     Answer(<<\h6A, \h82>>), Answer(<<\h05, \h90, \hAF>>)}
ShortAnswer == Answer(<<\h01, \h02, \h03, \h91, \h00>>)

\* the card's answers to the first handshake frame
FirstAnswers(key, bs) ==
    FailingAnswers \cup {ShortAnswer}
    \cup {Answer(CardEncrypt(key, b) \o <<\h91, \hAF>>) : b \in Challenges(bs)}
    \cup {Answer(CardEncrypt(key, Ramp(0, bs)) \o <<\h77, \h91, \hAF>>)}

\* the card's answers to the second handshake frame: failures, the correct
\* block, the correct block followed by one more byte, and the correct block
\* with one byte changed
SecondAnswers(key, rndA, bs) ==
    LET good == CardEncrypt(key, rotateLeft(rndA))
    IN  FailingAnswers \cup {ShortAnswer}
        \cup {Answer(good \o <<\h91, \h00>>), Answer(good \o <<\h90, \h00>>)}
        \cup {Answer(good \o <<\h77, \h91, \h00>>)}
        \cup {Answer(Mutate(good, i) \o <<\h91, \h00>>) : i \in 1..bs}

\* the card's answers to GetVersion and its continuations
VersionAnswers ==
    FailingAnswers
    \cup {Answer(<<\h91, \hAF>>), Answer(<<\h04, \h01, \h01, \h91, \hAF>>),
          Answer(<<\h04, \h01, \h01, \h33, \h00, \h1A, \h05, \h91, \hAF>>),
          Answer(<<\h04, \h11, \h22, \h91, \h00>>), Answer(<<\hBA, \h90, \h00>>)}

\* the card's answers to a command of one exchange
DataAnswers ==
    FailingAnswers
    \cup {Answer(<<\h91, \h00>>), Answer(<<\h01, \h02, \h03, \h04, \h05, \h06, \h91, \h00>>),
          Answer(<<\h01, \h02, \h03, \h04, \h91, \hAF>>), Answer(<<\h0A, \h0B, \h0C, \h90, \h00>>)}

\* what a caller may pass to SelectApplication, ReadData and WriteData
AIDs        == {<<\h01, \h02, \h03>>, <<\h01, \h02>>}
FileNos     == {1}
FileOffsets == {0, 258}
ReadLengths == {0, 16, 66051}
WriteBlocks == {<<\hDE, \hAD>>, Ramp(0, 249)}


---------------------------------------------------------------------------
(* package desfire: operations.  An operation runs from its call to its    *)
(* first card.Transmit, then from each Transmit's return to the next       *)
(* Transmit or to its own return.                                          *)

\* the frames on the wire when an operation begins: the log starts afresh
\* unless another operation is still running
WireAtCall == IF \A d \in Callers : dfPc[d] = "idle" THEN <<>> ELSE wire

\* card.Transmit(apdu) issued by caller c
Sent(w, c, cmd) == Append(w, [by |-> c, frame |-> DESFire_Transceive_apdu(cmd)])

\* an operation of caller c returns ret
DfReturn(c, ret) ==
    /\ dfPc' = [dfPc EXCEPT ![c] = "idle"]
    /\ dfLoc' = [dfLoc EXCEPT ![c] = NoLoc]
    /\ dfRet' = [dfRet EXCEPT ![c] = ret]

\* a faulty error return: the session is given up with the failed call
DfFail_sessionCleared(c, why) ==
    /\ DfReturn(c, RetErrOf(why))
    /\ session' = NoSession
    /\ UNCHANGED wire

\* a faulty error return: the error is dropped and the call reports success
DfFail_swallowed(c, why) ==
    /\ DfReturn(c, RetOk(<<>>))
    /\ UNCHANGED <<session, wire>>

\* an operation of caller c returns an error: nothing else changes
DfFail(c, why) ==
    /\ DfReturn(c, RetErrOf(why))
    /\ UNCHANGED <<session, wire>>

\* the Transceive that just returned, recorded for caller c
DfSeen(c, r) ==
    dfTrx' = [dfTrx EXCEPT ![c] = Append(@, [resp |-> r, res |-> DESFire_Transceive(r)])]

\* DESFire.AuthenticateAES: from the call to the first Transmit
AuthenticateAES_call(c, keyNo, key) ==
    /\ dfPc[c] = "idle"
    /\ dfTrx' = [dfTrx EXCEPT ![c] = NoTrx]
    /\ IF Len(key) # 16
       THEN /\ DfReturn(c, RetErrOf("AES key must be 16 bytes"))
            /\ wire' = WireAtCall
            /\ UNCHANGED session
       ELSE /\ dfPc' = [dfPc EXCEPT ![c] = "aes1"]
            /\ dfLoc' = [dfLoc EXCEPT ![c] = [NoLoc EXCEPT !.op = "AuthenticateAES",
                                                           !.key = key]]
            /\ dfRet' = [dfRet EXCEPT ![c] = Running]
            /\ wire' = Sent(WireAtCall, c, <<CmdAuthenticateAES, keyNo>>)
            /\ UNCHANGED session
    /\ UNCHANGED <<ucVars, rdVars, fnVars, clVars>>

\* DESFire.AuthenticateAES: from the first answer to the second Transmit
AuthenticateAES_step1(c, r, rndA, randOk) ==
    /\ dfPc[c] = "aes1"
    /\ DfSeen(c, r)
    /\ LET key  == dfLoc[c].key
           resp == DESFire_Transceive(r)
       IN  IF resp.err THEN DfFail(c, "authenticate step 1 failed")
           ELSE IF Len(resp.val) < 16 THEN DfFail(c, "encrypted RndB too short")
           ELSE LET encRndB == Slice(resp.val, 0, 16)
                    rndB    == decryptAES(encRndB, key)
                IN  IF rndB.err THEN DfFail(c, "failed to decrypt RndB")
                    ELSE IF ~randOk THEN DfFail(c, "failed to generate RndA")
                    ELSE LET rndBRotated == rotateLeft(rndB.val)
                             data    == rndA \o rndBRotated
                             encData == encryptAES(data, key)
                         IN  IF encData.err THEN DfFail(c, "failed to encrypt data")
                             ELSE /\ wire' = Sent(wire, c,
                                        <<CmdAdditionalFrame>> \o encData.val)
                                  /\ dfPc' = [dfPc EXCEPT ![c] = "aes2"]
                                  /\ dfLoc' = [dfLoc EXCEPT ![c].rndA = rndA,
                                                            ![c].rndB = rndB.val]
                                  /\ UNCHANGED <<session, dfRet>>
    /\ UNCHANGED <<ucVars, rdVars, fnVars, clVars>>

\* DESFire.AuthenticateAES: from the second answer to the return
AuthenticateAES_step2(c, r) ==
    /\ dfPc[c] = "aes2"
    /\ DfSeen(c, r)
    /\ LET key  == dfLoc[c].key
           rndA == dfLoc[c].rndA
           resp == DESFire_Transceive(r)
       IN  IF resp.err THEN DfFail(c, "authenticate step 2 failed")
           ELSE IF Len(resp.val) < 16 THEN DfFail(c, "encrypted RndA' too short")
           ELSE LET encRndARotated == Slice(resp.val, 0, 16)
                    rndARotatedDecrypted == decryptAES(encRndARotated, key)
                    rndARotated == rotateLeft(rndA)
                IN  IF rndARotatedDecrypted.err THEN DfFail(c, "failed to decrypt RndA'")
                    ELSE IF ~bytesEqual(rndARotated, rndARotatedDecrypted.val)
                    THEN DfFail(c, "authentication failed: RndA mismatch")
                    ELSE /\ session' = SessionKey(KeyTypeAES, key, key, 16)
                         /\ DfReturn(c, RetOk(<<>>))
                         /\ UNCHANGED wire
    /\ UNCHANGED <<ucVars, rdVars, fnVars, clVars>>

\* DESFire.Authenticate3DES: from the call to the first Transmit
Authenticate3DES_call(c, keyNo, key) ==
    /\ dfPc[c] = "idle"
    /\ dfTrx' = [dfTrx EXCEPT ![c] = NoTrx]
    /\ IF Len(key) # 16 /\ Len(key) # 24
       THEN /\ DfReturn(c, RetErrOf("3DES key must be 16 or 24 bytes"))
            /\ wire' = WireAtCall
            /\ UNCHANGED session
       ELSE /\ dfPc' = [dfPc EXCEPT ![c] = "des1"]
            /\ dfLoc' = [dfLoc EXCEPT ![c] = [NoLoc EXCEPT !.op = "Authenticate3DES",
                                                           !.key = key]]
            /\ dfRet' = [dfRet EXCEPT ![c] = Running]
            /\ wire' = Sent(WireAtCall, c, <<CmdAuthenticateISO, keyNo>>)
            /\ UNCHANGED session
    /\ UNCHANGED <<ucVars, rdVars, fnVars, clVars>>

\* DESFire.Authenticate3DES: from the first answer to the second Transmit
Authenticate3DES_step1(c, r, rndA, randOk) ==
    /\ dfPc[c] = "des1"
    /\ DfSeen(c, r)
    /\ LET key  == dfLoc[c].key
           resp == DESFire_Transceive(r)
       IN  IF resp.err THEN DfFail(c, "authenticate step 1 failed")
           ELSE IF Len(resp.val) < 8 THEN DfFail(c, "encrypted RndB too short")
           ELSE LET encRndB == Slice(resp.val, 0, 8)
                    rndB    == decrypt3DES(encRndB, key)
                IN  IF rndB.err THEN DfFail(c, "failed to decrypt RndB")
                    ELSE IF ~randOk THEN DfFail(c, "failed to generate RndA")
                    ELSE LET rndBRotated == rotateLeft(rndB.val)
                             data    == rndA \o rndBRotated
                             encData == encrypt3DES(data, key)
                         IN  IF encData.err THEN DfFail(c, "failed to encrypt data")
                             ELSE /\ wire' = Sent(wire, c,
                                        <<CmdAdditionalFrame>> \o encData.val)
                                  /\ dfPc' = [dfPc EXCEPT ![c] = "des2"]
                                  /\ dfLoc' = [dfLoc EXCEPT ![c].rndA = rndA,
                                                            ![c].rndB = rndB.val]
                                  /\ UNCHANGED <<session, dfRet>>
    /\ UNCHANGED <<ucVars, rdVars, fnVars, clVars>>

\* DESFire.Authenticate3DES: from the second answer to the return
Authenticate3DES_step2(c, r) ==
    /\ dfPc[c] = "des2"
    /\ DfSeen(c, r)
    /\ LET key  == dfLoc[c].key
           rndA == dfLoc[c].rndA
           resp == DESFire_Transceive(r)
       IN  IF resp.err THEN DfFail(c, "authenticate step 2 failed")
           ELSE IF Len(resp.val) < 8 THEN DfFail(c, "encrypted RndA' too short")
           ELSE LET rndARotatedDecrypted == decrypt3DES(Slice(resp.val, 0, 8), key)
                    rndARotated == rotateLeft(rndA)
                IN  IF rndARotatedDecrypted.err THEN DfFail(c, "failed to decrypt RndA'")
                    ELSE IF ~bytesEqual(rndARotated, rndARotatedDecrypted.val)
                    THEN DfFail(c, "authentication failed: RndA mismatch")
                    ELSE /\ session' = SessionKey(KeyType3DES, key, <<>>, 8)
                         /\ DfReturn(c, RetOk(<<>>))
                         /\ UNCHANGED wire
    /\ UNCHANGED <<ucVars, rdVars, fnVars, clVars>>

\* DESFire.GetVersion: from the call to the first Transmit
GetVersion_call(c) ==
    /\ dfPc[c] = "idle"
    /\ dfTrx' = [dfTrx EXCEPT ![c] = NoTrx]
    /\ dfPc' = [dfPc EXCEPT ![c] = "gv1"]
    /\ dfLoc' = [dfLoc EXCEPT ![c] = [NoLoc EXCEPT !.op = "GetVersion"]]
    /\ dfRet' = [dfRet EXCEPT ![c] = Running]
    /\ wire' = Sent(WireAtCall, c, <<CmdGetVersion>>)
    /\ UNCHANGED <<session, ucVars, rdVars, fnVars, clVars>>

\* DESFire.GetVersion: from the first or second answer to the next Transmit
GetVersion_step(c, r) ==
    /\ dfPc[c] \in {"gv1", "gv2"}
    /\ DfSeen(c, r)
    /\ LET resp == DESFire_Transceive(r)
       IN  IF resp.err THEN DfFail(c, "transceive")
           ELSE /\ dfLoc' = [dfLoc EXCEPT ![c].fullVersion = append(@, resp.val)]
                /\ dfPc' = [dfPc EXCEPT ![c] = IF @ = "gv1" THEN "gv2" ELSE "gv3"]
                /\ wire' = Sent(wire, c, <<CmdAdditionalFrame>>)
                /\ UNCHANGED <<session, dfRet>>
    /\ UNCHANGED <<ucVars, rdVars, fnVars, clVars>>

\* DESFire.GetVersion: from the third answer to the return
GetVersion_last(c, r) ==
    /\ dfPc[c] = "gv3"
    /\ DfSeen(c, r)
    /\ LET resp == DESFire_Transceive(r)
       IN  IF resp.err THEN DfFail(c, "transceive")
           ELSE /\ DfReturn(c, RetOk(append(dfLoc[c].fullVersion, resp.val)))
                /\ UNCHANGED <<session, wire>>
    /\ UNCHANGED <<ucVars, rdVars, fnVars, clVars>>

CmdGetApplicationIDs == \h6A
CmdSelectApplication == \h5A
CmdReadData          == \hBD
CmdWriteData         == \h3D

\* an operation of caller c that is one Transceive: from the call to the Transmit
DfCall(c, op, pc, cmd, args) ==
    /\ dfTrx' = [dfTrx EXCEPT ![c] = NoTrx]
    /\ dfPc' = [dfPc EXCEPT ![c] = pc]
    /\ dfLoc' = [dfLoc EXCEPT ![c] = [NoLoc EXCEPT !.op = op, !.args = args]]
    /\ dfRet' = [dfRet EXCEPT ![c] = Running]
    /\ wire' = Sent(WireAtCall, c, cmd)
    /\ UNCHANGED session

\* an operation of caller c is refused before any exchange
DfRefuse(c, why) ==
    /\ dfTrx' = [dfTrx EXCEPT ![c] = NoTrx]
    /\ DfReturn(c, RetErrOf(why))
    /\ wire' = WireAtCall
    /\ UNCHANGED session

\* DESFire.SelectApplication: from the call to the Transmit
SelectApplication_call(c, aid) ==
    /\ dfPc[c] = "idle"
    /\ IF Len(aid) # 3 THEN DfRefuse(c, "AID must be 3 bytes")
       ELSE DfCall(c, "SelectApplication", "sel", <<CmdSelectApplication>> \o aid, <<>>)
    /\ UNCHANGED <<ucVars, rdVars, fnVars, clVars>>

\* DESFire.SelectApplication: from the answer to the return
SelectApplication_done(c, r) ==
    /\ dfPc[c] = "sel"
    /\ DfSeen(c, r)
    /\ IF DESFire_Transceive(r).err THEN DfFail(c, "transceive")
       ELSE /\ DfReturn(c, RetOk(<<>>))
            /\ UNCHANGED <<session, wire>>
    /\ UNCHANGED <<ucVars, rdVars, fnVars, clVars>>

\* DESFire.GetApplicationIDs: from the call to the Transmit
GetApplicationIDs_call(c) ==
    /\ dfPc[c] = "idle"
    /\ DfCall(c, "GetApplicationIDs", "aids", <<CmdGetApplicationIDs>>, <<>>)
    /\ UNCHANGED <<ucVars, rdVars, fnVars, clVars>>

\* DESFire.GetApplicationIDs: from the answer to the return
GetApplicationIDs_done(c, r) ==
    /\ dfPc[c] = "aids"
    /\ DfSeen(c, r)
    /\ LET resp == DESFire_Transceive(r)
       IN  IF resp.err THEN DfFail(c, "transceive")
           ELSE LET numApps == Len(resp.val) \div 3
                    aids == [i \in 1..numApps |-> Slice(resp.val, (i - 1) * 3, i * 3)]
                IN  /\ DfReturn(c, RetOk(aids))
                    /\ UNCHANGED <<session, wire>>
    /\ UNCHANGED <<ucVars, rdVars, fnVars, clVars>>

\* b after binary.LittleEndian.PutUint32(append(b, 0), v) where b is
\* make([]byte, 3): the slice is full, append copies it into a new array and
\* the four bytes are written into the copy
appendedPutUint32(b, v) == b

\* DESFire.ReadData: from the call to the Transmit
ReadData_call(c, fileNo, offset, length) ==
    /\ dfPc[c] = "idle"
    /\ LET offsetBytes == appendedPutUint32(Repeat(0, 3), offset % (2 ^ 32))
           lengthBytes == appendedPutUint32(Repeat(0, 3), length % (2 ^ 32))
       IN  DfCall(c, "ReadData", "rdata",
                  <<CmdReadData, fileNo>> \o Slice(offsetBytes, 0, 3)
                                          \o Slice(lengthBytes, 0, 3),
                  <<offset, length>>)
    /\ UNCHANGED <<ucVars, rdVars, fnVars, clVars>>

\* DESFire.ReadData: from the answer to the return
ReadData_done(c, r) ==
    /\ dfPc[c] = "rdata"
    /\ DfSeen(c, r)
    /\ LET resp == DESFire_Transceive(r)
       IN  IF resp.err THEN DfFail(c, "transceive")
           ELSE /\ DfReturn(c, RetOk(resp.val))
                /\ UNCHANGED <<session, wire>>
    /\ UNCHANGED <<ucVars, rdVars, fnVars, clVars>>

\* DESFire.WriteData: from the call to the Transmit
WriteData_call(c, fileNo, offset, data) ==
    /\ dfPc[c] = "idle"
    /\ LET offsetBytes == appendedPutUint32(Repeat(0, 3), offset % (2 ^ 32))
           lengthBytes == appendedPutUint32(Repeat(0, 3), Len(data) % (2 ^ 32))
       IN  DfCall(c, "WriteData", "wdata",
                  <<CmdWriteData, fileNo>> \o Slice(offsetBytes, 0, 3)
                                           \o Slice(lengthBytes, 0, 3) \o data,
                  <<offset, Len(data)>>)
    /\ UNCHANGED <<ucVars, rdVars, fnVars, clVars>>

\* DESFire.WriteData: from the answer to the return
WriteData_done(c, r) ==
    /\ dfPc[c] = "wdata"
    /\ DfSeen(c, r)
    /\ IF DESFire_Transceive(r).err THEN DfFail(c, "transceive")
       ELSE /\ DfReturn(c, RetOk(<<>>))
            /\ UNCHANGED <<session, wire>>
    /\ UNCHANGED <<ucVars, rdVars, fnVars, clVars>>


---------------------------------------------------------------------------
(* package ultralight                                                      *)

CmdWrite         == \hA2
CmdAuthenticate1 == \h1A
CmdAuthenticate2 == \hAF
TotalPages       == 48

\* ultralight.rotateLeft
ul_rotateLeft(data) ==
    IF Len(data) = 0 THEN data
    ELSE [i \in 1..Len(data) |-> IF i < Len(data) THEN data[i + 1] ELSE data[1]]

\* ultralight.encrypt3DES
ul_encrypt3DES(data, key) ==
    IF Len(key) # 16 THEN Err
    ELSE IF ~NewTripleDESCipherOk(key) THEN Err
    ELSE LET padded == IF Len(data) % 8 # 0
                       THEN data \o Repeat(0, 8 - (Len(data) % 8))
                       ELSE data
         IN  Ok(CBCEncrypt(key, Repeat(0, 8), padded, 8))

\* ultralight.decrypt3DES
ul_decrypt3DES(data, key) ==
    IF Len(key) # 16 THEN Err
    ELSE IF ~NewTripleDESCipherOk(key) THEN Err
    ELSE IF Len(data) % 8 # 0 THEN Err
    ELSE Ok(CBCDecrypt(key, Repeat(0, 8), data, 8))

\* UltralightC.Transceive, from card.Transmit's return on: (payload, error)
UltralightC_Transceive(r) ==
    IF ~r.ok THEN Err
    ELSE LET response == r.data
             n == Len(response)
         IN  IF n < 2 THEN Err
             ELSE IF n >= 2 /\ response[n - 1] = \h90 /\ response[n] = \h00
             THEN Ok(Slice(response, 0, n - 2))
             ELSE Ok(response)

\* the card's answers to a native-mode first handshake frame
UcFirstAnswers(key) ==
    {TransmitError, Answer(<<>>), Answer(<<\h00>>), Answer(<<\h01, \h02, \h03>>)}
    \cup {Answer(CardEncrypt(key, b)) : b \in Challenges(DESBlockSize)}
    \cup {Answer(CardEncrypt(key, Ramp(0, DESBlockSize)) \o <<\h90, \h00>>)}
    \cup {Answer(CardEncrypt(key, Ramp(0, DESBlockSize)) \o <<\h77>>)}

\* the card's answers to a native-mode second handshake frame
UcSecondAnswers(key, rndA) ==
    LET good == CardEncrypt(key, ul_rotateLeft(rndA))
    IN  {TransmitError, Answer(<<>>), Answer(<<\h00>>), Answer(<<\h01, \h02, \h03>>)}
        \cup {Answer(good), Answer(good \o <<\h90, \h00>>)}
        \cup {Answer(Mutate(good, i)) : i \in 1..DESBlockSize}

\* the card's answers to a page write: ACK, NAK, with and without status pair
WriteAnswers ==
    {TransmitError, Answer(<<>>), Answer(<<\h0A>>), Answer(<<\h00>>),
     Answer(<<\h0A, \h90, \h00>>), Answer(<<\h90, \h00>>), Answer(<<\h63, \h00>>),
     Answer(<<\h05, \h90, \h00>>)}

\* pages and page contents a caller may pass to WritePage
WritePageAddrs == {4, 47, 48}
WritePageData  == {<<\hDE, \hAD, \hBE, \hEF>>, <<\h01, \h02, \h03>>}

\* an operation on the UltralightC object returns ret
UcReturn(ret) ==
    /\ ucPc' = "idle"
    /\ ucLoc' = NoLoc
    /\ ucRet' = ret

\* an operation on the UltralightC object returns an error: nothing else changes
UcFail(why) ==
    /\ UcReturn(RetErrOf(why))
    /\ UNCHANGED <<ucAuth, ucKey, wire>>

\* the Transceive that just returned
UcSeen(r) ==
    ucTrx' = Append(ucTrx, [resp |-> r, res |-> UltralightC_Transceive(r)])

\* card.Transmit(cmd) issued by the UltralightC object
UcSent(w, cmd) == Append(w, [by |-> 1, frame |-> cmd])

\* UltralightC.Authenticate: from the call to the first Transmit
UltralightC_Authenticate_call(key) ==
    /\ ucPc = "idle"
    /\ ucTrx' = NoTrx
    /\ IF Len(key) # 16
       THEN /\ UcReturn(RetErrOf("key must be 16 bytes for 3DES"))
            /\ wire' = <<>>
       ELSE /\ ucPc' = "auth1"
            /\ ucLoc' = [NoLoc EXCEPT !.op = "Authenticate", !.key = key]
            /\ ucRet' = Running
            /\ wire' = UcSent(<<>>, <<CmdAuthenticate1, \h00>>)
    /\ UNCHANGED <<ucAuth, ucKey, dfVars, rdVars, fnVars, clVars>>

\* UltralightC.Authenticate: from the first answer to the second Transmit
UltralightC_Authenticate_step1(r, rndA, randOk) ==
    /\ ucPc = "auth1"
    /\ UcSeen(r)
    /\ LET key  == ucLoc.key
           resp == UltralightC_Transceive(r)
       IN  IF resp.err THEN UcFail("authentication step 1 failed")
           ELSE IF Len(resp.val) < 8 THEN UcFail("authentication step 1: expected 8 bytes")
           ELSE LET encRndB == Slice(resp.val, 0, 8)
                    rndB    == ul_decrypt3DES(encRndB, key)
                IN  IF rndB.err THEN UcFail("failed to decrypt RndB")
                    ELSE IF ~randOk THEN UcFail("failed to generate RndA")
                    ELSE LET rndBRotated == ul_rotateLeft(rndB.val)
                             data    == rndA \o rndBRotated
                             encData == ul_encrypt3DES(data, key)
                         IN  IF encData.err THEN UcFail("failed to encrypt data")
                             ELSE /\ wire' = UcSent(wire,
                                        <<CmdAuthenticate2>> \o encData.val)
                                  /\ ucPc' = "auth2"
                                  /\ ucLoc' = [ucLoc EXCEPT !.rndA = rndA,
                                                            !.rndB = rndB.val]
                                  /\ UNCHANGED <<ucAuth, ucKey, ucRet>>
    /\ UNCHANGED <<dfVars, rdVars, fnVars, clVars>>

\* UltralightC.Authenticate: from the second answer to the return
UltralightC_Authenticate_step2(r) ==
    /\ ucPc = "auth2"
    /\ UcSeen(r)
    /\ LET key  == ucLoc.key
           rndA == ucLoc.rndA
           resp == UltralightC_Transceive(r)
       IN  IF resp.err THEN UcFail("authentication step 2 failed")
           ELSE IF Len(resp.val) < 8 THEN UcFail("authentication step 2: expected 8 bytes")
           ELSE LET encRndARotated == Slice(resp.val, 0, 8)
                    rndARotatedDecrypted == ul_decrypt3DES(encRndARotated, key)
                    rndARotated == ul_rotateLeft(rndA)
                IN  IF rndARotatedDecrypted.err THEN UcFail("failed to decrypt RndA'")
                    ELSE IF ~bytesEqual(rndARotated, rndARotatedDecrypted.val)
                    THEN UcFail("authentication failed: RndA mismatch")
                    ELSE /\ ucAuth' = TRUE
                         /\ ucKey' = key
                         /\ UcReturn(RetOk(<<>>))
                         /\ UNCHANGED wire
    /\ UNCHANGED <<dfVars, rdVars, fnVars, clVars>>

\* UltralightC.WritePage: from the call to the Transmit
UltralightC_WritePage_call(pageAddr, data) ==
    /\ ucPc = "idle"
    /\ ucTrx' = NoTrx
    /\ IF pageAddr >= TotalPages \/ Len(data) # 4
       THEN /\ UcReturn(RetErrOf(IF pageAddr >= TotalPages
                                     THEN "page address out of range"
                                     ELSE "data must be exactly 4 bytes"))
            /\ wire' = <<>>
       ELSE /\ ucPc' = "write"
            /\ ucLoc' = [NoLoc EXCEPT !.op = "WritePage"]
            /\ ucRet' = Running
            /\ wire' = UcSent(<<>>, <<CmdWrite, pageAddr>> \o data)
    /\ UNCHANGED <<ucAuth, ucKey, dfVars, rdVars, fnVars, clVars>>

\* UltralightC.WritePage: from the answer to the return
UltralightC_WritePage_done(r) ==
    /\ ucPc = "write"
    /\ UcSeen(r)
    /\ LET resp == UltralightC_Transceive(r)
       IN  IF resp.err THEN UcFail("write error")
           ELSE IF Len(resp.val) > 0 /\ (resp.val[1] = \h0A \/ resp.val[1] = \h00)
           THEN /\ UcReturn(RetOk(<<>>))
                /\ UNCHANGED <<ucAuth, ucKey, wire>>
           ELSE UcFail("write failed: unexpected response")
    /\ UNCHANGED <<dfVars, rdVars, fnVars, clVars>>

CmdRead   == \h30
Auth0Page == 42
Auth1Page == 43
KeyPage   == 44
UserMemoryStart == 4
UserMemoryEnd   == 39

\* the card's answers to a page read: 16 bytes, with and without status pair
ReadAnswers ==
    {TransmitError, Answer(<<\h00>>), Answer(Ramp(\h20, 16)),
     Answer(Ramp(\h20, 16) \o <<\h90, \h00>>), Answer(Ramp(\h20, 4) \o <<\h90, \h00>>)}

\* pages a caller may pass to ReadPage, values it may pass to SetAuthConfig
ReadPageAddrs == {0, 42, 48}
AuthConfigs   == {\h03, \h30}

\* UltralightC.ReadPage: from the call to the Transmit
UltralightC_ReadPage_call(pageAddr) ==
    /\ ucPc = "idle"
    /\ ucTrx' = NoTrx
    /\ IF pageAddr >= TotalPages
       THEN /\ UcReturn(RetErrOf("page address out of range"))
            /\ wire' = <<>>
       ELSE /\ ucPc' = "read"
            /\ ucLoc' = [NoLoc EXCEPT !.op = "ReadPage"]
            /\ ucRet' = Running
            /\ wire' = UcSent(<<>>, <<CmdRead, pageAddr>>)
    /\ UNCHANGED <<ucAuth, ucKey, dfVars, rdVars, fnVars, clVars>>

\* UltralightC.ReadPage: from the answer to the return
UltralightC_ReadPage_done(r) ==
    /\ ucPc = "read"
    /\ UcSeen(r)
    /\ LET resp == UltralightC_Transceive(r)
       IN  IF resp.err THEN UcFail("transceive")
           ELSE IF Len(resp.val) < 16 THEN UcFail("unexpected response length")
           ELSE /\ UcReturn(RetOk(Slice(resp.val, 0, 4)))
                /\ UNCHANGED <<ucAuth, ucKey, wire>>
    /\ UNCHANGED <<dfVars, rdVars, fnVars, clVars>>

PageSize == 4

\* what a READ of the given page returns from a card whose every page is
\* readable: that page and the three after it, page p holding 4p .. 4p+3
PageContent(p) == Ramp(PageSize * p, PageSize)
CardRead(page) ==
    PageContent(page) \o PageContent(page + 1) \o PageContent(page + 2)
        \o PageContent(page + 3)

\* the card's answers to the READ that ReadPages sends for a page
ReadPagesAnswers(page) ==
    {TransmitError, Answer(<<\h00>>), Answer(CardRead(page)),
     Answer(CardRead(page) \o <<\h90, \h00>>)}

\* start pages and page counts a caller may pass to ReadPages
StartPages == {0, 40, 44, 48}
NumPages   == {0, 1, 4, 6, 8}

\* UltralightC.ReadPages, the loop head with counter i and the bytes gathered
\* so far: the next Transmit, or the return when the loop ends or breaks
ReadPages_loop(w, startPage, numPages, i, result) ==
    LET currentPage == ToByte(startPage + ToByte(i))
    IN  IF i < numPages /\ currentPage < TotalPages
        THEN /\ ucPc' = "reads"
             /\ ucLoc' = [NoLoc EXCEPT !.op = "ReadPages",
                                       !.args = <<startPage, numPages, i>>,
                                       !.result = result]
             /\ ucRet' = Running
             /\ wire' = UcSent(w, <<CmdRead, currentPage>>)
        ELSE /\ UcReturn(RetOk(result))
             /\ wire' = w

\* UltralightC.ReadPages: from the call to the first Transmit
UltralightC_ReadPages_call(startPage, numPages) ==
    /\ ucPc = "idle"
    /\ ucTrx' = NoTrx
    /\ IF startPage >= TotalPages
       THEN /\ UcReturn(RetErrOf("start page out of range"))
            /\ wire' = <<>>
       ELSE ReadPages_loop(<<>>, startPage, numPages, 0, <<>>)
    /\ UNCHANGED <<ucAuth, ucKey, dfVars, rdVars, fnVars, clVars>>

\* UltralightC.ReadPages: from a Transceive's return to the next Transmit or
\* the return
UltralightC_ReadPages_step(r) ==
    /\ ucPc = "reads"
    /\ UcSeen(r)
    /\ LET resp       == UltralightC_Transceive(r)
           startPage  == ucLoc.args[1]
           numPages   == ucLoc.args[2]
           i          == ucLoc.args[3]
           pagesNeeded == IF numPages - i > 4 THEN 4 ELSE numPages - i
       IN  IF resp.err THEN UcFail("error reading page")
           ELSE IF Len(resp.val) < 16 THEN UcFail("unexpected response length")
           ELSE ReadPages_loop(wire, startPage, numPages, i + 4,
                        ucLoc.result \o Slice(resp.val, 0, pagesNeeded * PageSize))
    /\ UNCHANGED <<ucAuth, ucKey, dfVars, rdVars, fnVars, clVars>>

\* UltralightC.ReadUserMemory: pages 4..39 through ReadPages
UltralightC_ReadUserMemory_call ==
    UltralightC_ReadPages_call(UserMemoryStart, UserMemoryEnd - UserMemoryStart + 1)

\* UltralightC.WritePage called from another operation: what it returns for
\* the card's answer r
writePageAccepted(r) ==
    LET resp == UltralightC_Transceive(r)
    IN  ~resp.err /\ Len(resp.val) > 0 /\ (resp.val[1] = \h0A \/ resp.val[1] = \h00)

\* start pages and data a caller may pass to WriteUserMemory
WriteStartPages == {3, 4, 39, 40}
UserData        == {<<>>, Ramp(1, 4), Ramp(1, 6), Ramp(1, 9)}

\* make([]byte, 4) filled by copy(pageData, data[i:])
pageDataAt(data, i) ==
    [j \in 1..4 |-> IF i + j <= Len(data) THEN data[i + j] ELSE 0]

\* UltralightC.WriteUserMemory, the loop head with counter i: the next
\* WritePage's Transmit, the boundary error, or the return
WriteUserMemory_loop(w, startPage, data, i) ==
    LET pageAddr == ToByte(startPage + ToByte(i \div 4))
    IN  IF i < Len(data)
        THEN IF pageAddr > UserMemoryEnd
             THEN /\ UcReturn(RetErrOf("data exceeds user memory boundary"))
                  /\ wire' = w
             ELSE /\ ucPc' = "wum"
                  /\ ucLoc' = [NoLoc EXCEPT !.op = "WriteUserMemory",
                                            !.args = <<startPage, i>>,
                                            !.data = data]
                  /\ ucRet' = Running
                  /\ wire' = UcSent(w, <<CmdWrite, pageAddr>> \o pageDataAt(data, i))
        ELSE /\ UcReturn(RetOk(<<>>))
             /\ wire' = w

\* UltralightC.WriteUserMemory: from the call to the first WritePage's Transmit
UltralightC_WriteUserMemory_call(startPage, data) ==
    /\ ucPc = "idle"
    /\ ucTrx' = NoTrx
    /\ IF startPage < UserMemoryStart \/ startPage > UserMemoryEnd
       THEN /\ UcReturn(RetErrOf("start page must be between 4 and 39"))
            /\ wire' = <<>>
       ELSE WriteUserMemory_loop(<<>>, startPage, data, 0)
    /\ UNCHANGED <<ucAuth, ucKey, dfVars, rdVars, fnVars, clVars>>

\* UltralightC.WriteUserMemory: from a WritePage's answer to the next
\* Transmit or the return
UltralightC_WriteUserMemory_step(r) ==
    /\ ucPc = "wum"
    /\ UcSeen(r)
    /\ IF ~writePageAccepted(r) THEN UcFail("error writing page")
       ELSE WriteUserMemory_loop(wire, ucLoc.args[1], ucLoc.data, ucLoc.args[2] + 4)
    /\ UNCHANGED <<ucAuth, ucKey, dfVars, rdVars, fnVars, clVars>>

\* a faulty SetAuthConfig: the authenticated flag is not looked at
UltralightC_SetAuthConfig_call_unguarded(auth0, auth1) ==
    /\ ucPc = "idle"
    /\ ucTrx' = NoTrx
    /\ ucPc' = "auth0w"
    /\ ucLoc' = [NoLoc EXCEPT !.op = "SetAuthConfig", !.fullVersion = <<auth1, \h00, \h00, \h00>>]
    /\ ucRet' = Running
    /\ wire' = UcSent(<<>>, <<CmdWrite, Auth0Page, auth0, \h00, \h00, \h00>>)
    /\ UNCHANGED <<ucAuth, ucKey, dfVars, rdVars, fnVars, clVars>>

\* UltralightC.SetAuthConfig: from the call to the first WritePage's Transmit;
\* auth1Data waits for the second write in the locals' byte-string field
UltralightC_SetAuthConfig_call(auth0, auth1) ==
    /\ ucPc = "idle"
    /\ ucTrx' = NoTrx
    /\ IF ~ucAuth
       THEN /\ UcReturn(RetErrOf("authentication required to change auth config"))
            /\ wire' = <<>>
       ELSE /\ ucPc' = "auth0w"
            /\ ucLoc' = [NoLoc EXCEPT !.op = "SetAuthConfig",
                                      !.fullVersion = <<auth1, \h00, \h00, \h00>>]
            /\ ucRet' = Running
            /\ wire' = UcSent(<<>>, <<CmdWrite, Auth0Page, auth0, \h00, \h00, \h00>>)
    /\ UNCHANGED <<ucAuth, ucKey, dfVars, rdVars, fnVars, clVars>>

\* UltralightC.SetAuthConfig: from a WritePage's answer to the next Transmit
\* or the return
UltralightC_SetAuthConfig_step(r) ==
    /\ ucPc \in {"auth0w", "auth1w"}
    /\ UcSeen(r)
    /\ IF ~writePageAccepted(r)
       THEN UcFail(IF ucPc = "auth0w" THEN "failed to write AUTH0"
                                      ELSE "failed to write AUTH1")
       ELSE IF ucPc = "auth0w"
       THEN /\ ucPc' = "auth1w"
            /\ wire' = UcSent(wire, <<CmdWrite, Auth1Page>> \o ucLoc.fullVersion)
            /\ UNCHANGED <<ucAuth, ucKey, ucLoc, ucRet>>
       ELSE /\ UcReturn(RetOk(<<>>))
            /\ UNCHANGED <<ucAuth, ucKey, wire>>
    /\ UNCHANGED <<dfVars, rdVars, fnVars, clVars>>

\* UltralightC.ChangeKey: reversedKey
reversedKey(newKey) ==
    [j \in 1..16 |-> IF j <= 8 THEN newKey[9 - j] ELSE newKey[25 - j]]

\* UltralightC.ChangeKey: from the call to the first WritePage's Transmit;
\* the locals keep newKey and the pages written so far
UltralightC_ChangeKey_call(newKey) ==
    /\ ucPc = "idle"
    /\ ucTrx' = NoTrx
    /\ IF Len(newKey) # 16
       THEN /\ UcReturn(RetErrOf("key must be 16 bytes"))
            /\ wire' = <<>>
       ELSE IF ~ucAuth
       THEN /\ UcReturn(RetErrOf("authentication required to change key"))
            /\ wire' = <<>>
       ELSE /\ ucPc' = "keyw"
            /\ ucLoc' = [NoLoc EXCEPT !.op = "ChangeKey", !.key = newKey]
            /\ ucRet' = Running
            /\ wire' = UcSent(<<>>, <<CmdWrite, KeyPage>>
                                        \o Slice(reversedKey(newKey), 0, 4))
    /\ UNCHANGED <<ucAuth, ucKey, dfVars, rdVars, fnVars, clVars>>

\* UltralightC.ChangeKey: from a WritePage's answer to the next Transmit or
\* the return; i is the number of pages written
UltralightC_ChangeKey_step(r) ==
    /\ ucPc = "keyw"
    /\ UcSeen(r)
    /\ LET i == Len(wire)
       IN  IF ~writePageAccepted(r) THEN UcFail("failed to write key page")
           ELSE IF i < 4
           THEN /\ wire' = UcSent(wire, <<CmdWrite, ToByte(KeyPage + i)>>
                                    \o Slice(reversedKey(ucLoc.key), i * 4, (i + 1) * 4))
                /\ UNCHANGED <<ucAuth, ucKey, ucPc, ucLoc, ucRet>>
           ELSE /\ ucKey' = ucLoc.key
                /\ UcReturn(RetOk(<<>>))
                /\ UNCHANGED <<ucAuth, wire>>
    /\ UNCHANGED <<dfVars, rdVars, fnVars, clVars>>

\* ReadKey's second loop: the key from the 16 bytes read off pages 44..47
actualKey(keyData) ==
    [j \in 1..16 |-> IF j <= 8 THEN keyData[9 - j] ELSE keyData[25 - j]]

\* keys a card may hold, and its answers to the READ of key page 44 + i:
\* the page as ChangeKey lays it out followed by twelve more bytes
CardKeys == {KeyAESRamp, Key2K3DES}
KeyPageAnswers(i) ==
    {TransmitError, Answer(<<\h00>>)}
    \cup {Answer(Slice(reversedKey(k), i * 4, (i + 1) * 4) \o Ramp(\h80, 12)) :
            k \in CardKeys}

\* UltralightC.ReadKey: from the call to the first ReadPage's Transmit; the
\* locals keep the bytes copied into keyData so far
UltralightC_ReadKey_call ==
    /\ ucPc = "idle"
    /\ ucTrx' = NoTrx
    /\ ucPc' = "keyr"
    /\ ucLoc' = [NoLoc EXCEPT !.op = "ReadKey"]
    /\ ucRet' = Running
    /\ wire' = UcSent(<<>>, <<CmdRead, KeyPage>>)
    /\ UNCHANGED <<ucAuth, ucKey, dfVars, rdVars, fnVars, clVars>>

\* UltralightC.ReadKey: from a ReadPage's answer to the next Transmit or the
\* return; i is the number of pages asked for
UltralightC_ReadKey_step(r) ==
    /\ ucPc = "keyr"
    /\ UcSeen(r)
    /\ LET resp == UltralightC_Transceive(r)
           i    == Len(wire)
       IN  IF resp.err \/ Len(resp.val) < 16 THEN UcFail("failed to read key page")
           ELSE LET keyData == ucLoc.result \o Slice(resp.val, 0, 4)
                IN  IF i < 4
                    THEN /\ wire' = UcSent(wire, <<CmdRead, ToByte(KeyPage + i)>>)
                         /\ ucLoc' = [ucLoc EXCEPT !.result = keyData]
                         /\ UNCHANGED <<ucAuth, ucKey, ucPc, ucRet>>
                    ELSE /\ UcReturn(RetOk(actualKey(keyData)))
                         /\ UNCHANGED <<ucAuth, ucKey, wire>>
    /\ UNCHANGED <<dfVars, rdVars, fnVars, clVars>>


---------------------------------------------------------------------------
(* package hardware: Reader.Connect and card identification                *)

MIFARE_CLASSIK_1K == "MIFARE Classic 1K"
MIFARE_CLASSIK_4K == "MIFARE Classic 4K"
MIFARE_MINI       == "MIFARE Mini"
MIFARE_ULTRALIGHT == "MIFARE Ultralight/NTAG203/213"
NTAG              == "NTAG215/216"
MIFARE_DESFIRE    == "DESFire EV1/EV2/EV3"
MIFARE_PLUS_SE_2K == "MIFARE Plus SE 2K"
MIFARE_PLUS_SE_4K == "MIFARE Plus SE 4K"
TOPAZ_JEWEL       == "Topaz/Jewel"
FELI_CA           == "FeliCa"

\* the frames the Reader sends
GetUIDFrame        == <<\hFF, \hCA, \h00, \h00, \h00>>
DESFireVersionFrame == <<\h90, \h60, \h00, \h00, \h00>>
DESFireMoreFrame   == <<\h90, \hAF, \h00, \h00, \h00>>
ReadPageFrame(page)   == <<\hFF, \hB0, \h00, page, \h04>>
ReadBlockFrame(block) == <<\hFF, \hB0, \h00, block, \h10>>
LoadKeyFrame(keyNumber, key) == <<\hFF, \h82, \h00, keyNumber, \h06>> \o key
ClassicAuthFrame(block, keyType, keyNumber) ==
    <<\hFF, \h86, \h00, \h00, \h05, \h01, \h00, block, keyType, keyNumber>>
UltralightReadFrame == <<\h30, 4>>
SelectAllFrame      == <<\hFF, \hCA, \h00, \h00, \h00>>

\* the status pair 90 00 closes the response
EndsOK(rsp) == Len(rsp) >= 2 /\ rsp[Len(rsp) - 1] = \h90 /\ rsp[Len(rsp)] = \h00

\* Reader.getUID, from card.Transmit's return on
getUID(r) ==
    IF ~r.ok THEN Err
    ELSE IF Len(r.data) < 2 THEN Err
    ELSE IF ~EndsOK(r.data) THEN Err
    ELSE Ok(Slice(r.data, 0, Len(r.data) - 2))

\* Reader.readPage, from card.Transmit's return on.  rsp[:4] of a response
\* shorter than 4 bytes reads past its length: short marks that case
readPage(r) ==
    IF ~r.ok \/ Len(r.data) < 2 \/ ~EndsOK(r.data)
    THEN [nil |-> TRUE, short |-> FALSE, val |-> <<>>]
    ELSE IF Len(r.data) < 4
    THEN [nil |-> FALSE, short |-> TRUE,
          val |-> r.data \o Repeat(0, 4 - Len(r.data))]
    ELSE [nil |-> FALSE, short |-> FALSE, val |-> Slice(r.data, 0, 4)]

\* Reader.readBlock, from card.Transmit's return on (nil is the empty string)
readBlock(r) ==
    IF ~r.ok \/ Len(r.data) < 2 \/ ~EndsOK(r.data) THEN <<>>
    ELSE Slice(r.data, 0, Len(r.data) - 2)

\* Reader.tryDESFireVersion, from card.Transmit's return on
tryDESFireVersion(r) ==
    IF ~r.ok THEN FALSE
    ELSE IF Len(r.data) <= 2 THEN FALSE
    ELSE TRUE

\* Reader.classicLoadKey / Reader.classicAuthenticate: the answer is accepted
classicAccepted(r) ==
    r.ok /\ Len(r.data) = 2 /\ r.data[1] = \h90 /\ r.data[2] = \h00

\* Reader.tryUltralight, from card.Transmit's return on
tryUltralight(r) ==
    IF ~r.ok THEN FALSE
    ELSE IF Len(r.data) < 2 THEN FALSE
    ELSE TRUE

\* Reader.tryNTAG
tryNTAG(page3) ==
    IF page3 = <<>> THEN [ok |-> FALSE, size |-> 0]
    ELSE LET cc == Slice(page3, 0, 4)
         IN  IF cc = <<\hE1, \h10, \h12, \h00>> THEN [ok |-> TRUE, size |-> 144]
             ELSE IF cc = <<\hE1, \h10, \h3F, \h00>> THEN [ok |-> TRUE, size |-> 504]
             ELSE IF cc = <<\hE1, \h10, \h6D, \h00>> THEN [ok |-> TRUE, size |-> 888]
             ELSE IF cc = <<\hE1, \h10, \h3E, \h00>> THEN [ok |-> TRUE, size |-> 496]
             ELSE [ok |-> FALSE, size |-> 0]

\* Reader.getCardAttributes: SAK and ATQA of a capability-container match
ntagAttributes(size) ==
    IF (size > 480 /\ size <= 504) \/ size = 888
    THEN [sak |-> \h00, atqa |-> <<\h00, \h00>>]
    ELSE IF size = 144 THEN [sak |-> \h44, atqa |-> <<\h00, \h44>>]
    ELSE [sak |-> 0, atqa |-> <<>>]

\* a faulty choice of Classic attributes: the two layouts are exchanged
classicAttributes_swapped(size) ==
    IF size = 1024 THEN [sak |-> \h18, atqa |-> <<\h00, \h02>>]
    ELSE [sak |-> \h08, atqa |-> <<\h00, \h04>>]

\* Reader.getCardAttributes: SAK and ATQA of a Classic probe success
classicAttributes(size) ==
    IF size = 1024 THEN [sak |-> \h08, atqa |-> <<\h00, \h04>>]
    ELSE [sak |-> \h18, atqa |-> <<\h00, \h02>>]

\* Reader.getCardAttributes, the raw exchange: (sak, atqa, error)
rawAttributes(r) ==
    IF ~r.ok THEN [err |-> TRUE, sak |-> 0, atqa |-> <<>>]
    ELSE IF Len(r.data) < 4 \/ ~EndsOK(r.data)
    THEN [err |-> TRUE, sak |-> 0, atqa |-> <<>>]
    ELSE [err |-> FALSE, sak |-> r.data[3], atqa |-> Slice(r.data, 0, 2)]

\* Reader.getCardType: the table
cardTypes ==
    << [ATQA |-> <<\h00, \h04>>, SAK |-> \h08, Name |-> MIFARE_CLASSIK_1K, Details |-> "1KB, CRYPTO1"],
       [ATQA |-> <<\h00, \h02>>, SAK |-> \h18, Name |-> MIFARE_CLASSIK_4K, Details |-> "4KB, CRYPTO1"],
       [ATQA |-> <<\h00, \h44>>, SAK |-> \h09, Name |-> MIFARE_MINI, Details |-> "320B, CRYPTO1"],
       [ATQA |-> <<\h00, \h44>>, SAK |-> \h00, Name |-> MIFARE_ULTRALIGHT, Details |-> "Check CC for specifics"],
       [ATQA |-> <<\h00, \h00>>, SAK |-> \h00, Name |-> NTAG, Details |-> "Check CC: 504B/888B"],
       [ATQA |-> <<\h03, \h44>>, SAK |-> \h20, Name |-> MIFARE_DESFIRE, Details |-> "2-16KB, AES"],
       [ATQA |-> <<\h00, \h04>>, SAK |-> \h0C, Name |-> MIFARE_PLUS_SE_2K, Details |-> "2KB, CRYPTO1/AES"],
       [ATQA |-> <<\h00, \h02>>, SAK |-> \h1C, Name |-> MIFARE_PLUS_SE_4K, Details |-> "4KB, CRYPTO1/AES"],
       [ATQA |-> <<\h0C, \h00>>, SAK |-> \h00, Name |-> TOPAZ_JEWEL, Details |-> "96-512B, no auth"],
       [ATQA |-> <<\h00, \h43>>, SAK |-> \h11, Name |-> FELI_CA, Details |-> "Variable, FeliCa-specific"] >>

\* Reader.getCardType: index of the first table row that matches, 0 if none
cardTypeRow(atqa, sak) ==
    LET hits == {i \in 1..Len(cardTypes) :
                    atqa = cardTypes[i].ATQA /\ sak = cardTypes[i].SAK}
    IN  IF hits = {} THEN 0 ELSE CHOOSE i \in hits : \A j \in hits : i <= j

\* fmt.Sprintf("%02x", b) and hex.EncodeToString
HexDigits == <<"0", "1", "2", "3", "4", "5", "6", "7",
               "8", "9", "a", "b", "c", "d", "e", "f">>
Hex2(b) == HexDigits[(b \div 16) + 1] \o HexDigits[(b % 16) + 1]
RECURSIVE EncodeToString(_)
EncodeToString(bytes) ==
    IF Len(bytes) = 0 THEN "" ELSE Hex2(Head(bytes)) \o EncodeToString(Tail(bytes))

\* fmt.Sprintf("%s (%s)", name, details)
TypeString(name, details) == name \o " (" \o details \o ")"

\* fmt.Sprintf("%dB", size)
SizeString(size) == ToString(size) \o "B"

\* Reader.getCardType, the no-match result
UnknownType(atqa, sak) ==
    "Unknown (ATQA=" \o EncodeToString(atqa) \o ", SAK=" \o Hex2(sak) \o ")"

\* Reader.getDESFireStorageSize
getDESFireStorageSize(byteInfo) ==
    IF byteInfo = \h16 THEN 2048
    ELSE IF byteInfo = \h18 THEN 4096
    ELSE IF byteInfo = \h1A THEN 8192
    ELSE 0

\* Reader.getDESFireInfo: the name chosen from the second frame
desfireName(swMajor, hwMajor) ==
    IF swMajor = \h01 THEN "DESFire V1"
    ELSE IF swMajor = \h03
         THEN IF hwMajor = \h33 THEN "DESFire V3" ELSE "DESFire V2"
    ELSE IF swMajor = \h12 THEN "DESFire V2"
    ELSE IF swMajor = \h22 THEN "DESFire V2"
    ELSE IF swMajor = \h33 THEN "DESFire V3"
    ELSE "DESFire [Version unknown]"


\* the cards presented to the Reader.  A card is described by its answer
\* to each exchange of the identification; an exchange with a card that has
\* left the field is a transport error
UidA == <<\h04, \hA1, \hB2, \hC3>>
UidB == <<\h04, \h5E, \h6F, \h70>>
OKStatus == <<\h90, \h00>>
Refused  == Answer(<<\h63, \h00>>)
Accepted == Answer(OKStatus)
CCNTAG213    == <<\hE1, \h10, \h12, \h00>>
CCNTAG215    == <<\hE1, \h10, \h3F, \h00>>
CCNTAG216    == <<\hE1, \h10, \h6D, \h00>>
CCNTAG215Alt == <<\hE1, \h10, \h3E, \h00>>
VersionFrame1 == <<\h04, \h01, \h01, \h33, \h00, \h1A, \h05, \h91, \hAF>>
VersionFrame2 == <<\h04, \h01, \h01, \h03, \h00, \h1A, \h05, \h91, \hAF>>

\* a card that refuses everything but the UID query
BlankCard ==
    [name |-> "Blank", uid |-> Answer(UidA \o OKStatus), desfire |-> Refused,
     block0 |-> Refused, page |-> Refused, page3 |-> Refused,
     loadkey |-> Refused, auth4k |-> Refused, auth1k |-> Refused,
     block0auth |-> Refused, ul |-> Answer(<<\h00>>),
     raw |-> Answer(UidA \o OKStatus),
     dfinfo1 |-> Refused, dfinfo2 |-> Refused]

NtagCard(name, cc) ==
    [BlankCard EXCEPT !.name = name,
                      !.block0 = Answer(Ramp(\hB0, 16) \o OKStatus),
                      !.page = Answer(UidA \o OKStatus),
                      !.page3 = Answer(cc \o OKStatus),
                      !.ul = Answer(Ramp(\h01, 16) \o OKStatus)]

ClassicCard(name, is4K) ==
    [BlankCard EXCEPT !.name = name, !.uid = Answer(UidB \o OKStatus),
                      !.loadkey = Accepted,
                      !.auth4k = IF is4K THEN Accepted ELSE Refused,
                      !.auth1k = Accepted,
                      !.block0auth = Answer(Ramp(\hB0, 16) \o OKStatus),
                      !.raw = Answer(UidB \o OKStatus)]

DESFireCard ==
    [BlankCard EXCEPT !.name = "DESFire EV3", !.uid = Answer(UidB \o OKStatus),
                      !.desfire = Answer(VersionFrame1),
                      !.dfinfo1 = Answer(VersionFrame1),
                      !.dfinfo2 = Answer(VersionFrame2),
                      !.raw = Answer(UidB \o OKStatus)]

Cards ==
    {BlankCard,
     NtagCard("NTAG213", CCNTAG213), NtagCard("NTAG215", CCNTAG215),
     NtagCard("NTAG216", CCNTAG216), NtagCard("NTAG215 alt", CCNTAG215Alt),
     \* an Ultralight without capability container
     [NtagCard("Ultralight", <<\h00, \h00, \h00, \h00>>) EXCEPT !.uid = Answer(UidB \o OKStatus)],
     ClassicCard("Classic 1K", FALSE), ClassicCard("Classic 4K", TRUE),
     \* simulated responses: the 4K trailer authenticates, page 3 reads as a
     \* capability container
     [ClassicCard("Simulated 4K with CC", TRUE) EXCEPT
         !.page = Answer(UidA \o OKStatus), !.page3 = Answer(CCNTAG213 \o OKStatus)],
     DESFireCard,
     \* a DESFire card of the first generation with 4 KB
     [DESFireCard EXCEPT !.name = "DESFire EV1",
                         !.dfinfo1 = Answer(<<\h04, \h01, \h01, \h01, \h00, \h18, \h05, \h91, \hAF>>),
                         !.dfinfo2 = Answer(<<\h04, \h01, \h01, \h01, \h04, \h18, \h05, \h91, \hAF>>)],
     \* a DESFire card whose version frames are cut short
     [DESFireCard EXCEPT !.name = "DESFire short", !.dfinfo1 = Answer(<<\h00, \h91, \hAF>>)],
     [DESFireCard EXCEPT !.name = "DESFire single frame",
                         !.dfinfo1 = Answer(<<\h04, \h01, \h01, \h01, \h00, \h18, \h05, \h91, \h00>>)],
     \* cards known only by the attributes of the raw exchange
     [BlankCard EXCEPT !.name = "Raw Mini", !.raw = Answer(<<\h00, \h44, \h09, \h00>> \o OKStatus)],
     [BlankCard EXCEPT !.name = "Raw short", !.raw = Answer(<<\h04, \hA1>> \o OKStatus)],
     [BlankCard EXCEPT !.name = "Mute", !.uid = Refused],
     \* cards that answer a probe with a failure status
     [BlankCard EXCEPT !.name = "Refused page read", !.ul = Refused],
     [BlankCard EXCEPT !.name = "Refused version", !.desfire = Answer(<<\h00, \h91, \h1C>>)],
     [BlankCard EXCEPT !.name = "Refused raw", !.raw = Refused]}

\* the answer to an exchange: the card's, unless it has left the field
AnswerOf(slot, lost) == IF present /\ ~lost THEN slot ELSE TransmitError

\* card.Status(): an error once the card has left the field, else the active
\* protocol and the ATR
AtrA == <<\h3B, \h8F, \h80, \h01>>
StatusOf(inField) ==
    IF inField THEN [ok |-> TRUE, proto |-> "T1", atr |-> AtrA]
    ELSE [ok |-> FALSE, proto |-> "none", atr |-> <<>>]

\* Reader.detectCardType: the protocol name
protocolName(st) ==
    IF st.proto = "T0" THEN "T=0" ELSE IF st.proto = "T1" THEN "T=1" ELSE "Unknown"

\* NewReader: an empty CardInfo, nothing cached
NewReader ==
    [uid |-> <<>>, type |-> "", atr |-> <<>>, sak |-> 0, atqa |-> <<>>,
     capacity |-> 0, protocol |-> "",
     block0 |-> <<>>, page0 |-> <<>>, page1 |-> <<>>, page2 |-> <<>>, page3 |-> <<>>]

\* the local variables of Connect / detectCardType / getCardType; uidAtCall
\* remembers the UID the CardInfo held when Connect was called
NoRdLoc ==
    [isDESFire |-> FALSE, block0 |-> <<>>, page0 |-> <<>>, page1 |-> <<>>,
     page2 |-> <<>>, sak |-> 0, atqa |-> <<>>, sizeInBytes |-> 0,
     atr |-> <<>>, protocol |-> "", hwMajor |-> 0, uidAtCall |-> <<>>]

\* card.Transmit(frame) issued by the Reader
RdSent(frame) == wire' = Append(wire, [by |-> 1, frame |-> frame])

\* Connect returns ret, the Reader's fields being rd1
RdReturn(rd1, ret) ==
    /\ rd' = rd1
    /\ rdPc' = "idle"
    /\ rdLoc' = NoRdLoc
    /\ rdRet' = ret
    /\ UNCHANGED wire

\* an index past the end of a slice: the run-time panic ends the program
RdPanic ==
    /\ rdPc' = "panic"
    /\ UNCHANGED <<rd, rdLoc, rdRet, wire>>

\* Reader.detectCardType, its last lines: the CardInfo is filled in
Finalize(rd1, L, cardType, sizeInBytes) ==
    RdReturn([rd1 EXCEPT !.type = cardType, !.atr = L.atr, !.sak = L.sak,
                         !.atqa = L.atqa, !.protocol = L.protocol,
                         !.capacity = sizeInBytes],
             RetOk(<<>>))

\* Reader.detectCardType from the return of getCardAttributes, and
\* Reader.getCardType up to getDESFireInfo's first Transmit
AfterAttributes(rd1, L, sak0, atqa0, sizeInBytes, st) ==
    LET sak  == IF L.isDESFire THEN \h20 ELSE sak0
        atqa == IF L.isDESFire THEN <<\h03, \h44>> ELSE atqa0
        L1   == [L EXCEPT !.sak = sak, !.atqa = atqa, !.sizeInBytes = sizeInBytes,
                          !.atr = st.atr, !.protocol = protocolName(st)]
        row  == cardTypeRow(atqa, sak)
    IN  IF ~st.ok THEN RdReturn(rd1, RetErr)
        ELSE IF row = 0 THEN Finalize(rd1, L1, UnknownType(atqa, sak), 0)
        ELSE IF cardTypes[row].Name = MIFARE_DESFIRE
        THEN /\ RdSent(DESFireVersionFrame)
             /\ rd' = rd1
             /\ rdPc' = "dfinfo1"
             /\ rdLoc' = L1
             /\ UNCHANGED rdRet
        ELSE IF cardTypes[row].Name = NTAG
        THEN Finalize(rd1, L1, TypeString(NTAG, SizeString(sizeInBytes)), sizeInBytes)
        ELSE Finalize(rd1, L1, TypeString(cardTypes[row].Name, cardTypes[row].Details),
                      sizeInBytes)

\* Reader.getCardAttributes from its first line to tryClassic's first Transmit
EnterAttributes(rd1, L, st) ==
    LET n == tryNTAG(rd1.page3)
    IN  IF n.ok
        THEN AfterAttributes(rd1, L, ntagAttributes(n.size).sak,
                             ntagAttributes(n.size).atqa, n.size, st)
        ELSE /\ RdSent(LoadKeyFrame(\h00, Repeat(\hFF, 6)))
             /\ rd' = rd1
             /\ rdPc' = "loadkey"
             /\ rdLoc' = L
             /\ UNCHANGED rdRet

\* the card stays in the field, or leaves it at this exchange (lost) or
\* after it (gone)
Field(lost, gone) ==
    /\ present' = (present /\ ~lost /\ ~gone)
    /\ UNCHANGED card

\* Reader.Connect: from the call to getUID's Transmit; k is the card in the
\* field, and ctx.Connect fails when there is none
Connect_call(k, connected) ==
    /\ rdPc = "idle"
    /\ IF ~connected
       THEN /\ RdReturn(rd, RetErr)
            /\ present' = FALSE
            /\ UNCHANGED card
       ELSE /\ wire' = <<[by |-> 1, frame |-> GetUIDFrame]>>
            /\ rdPc' = "uid"
            /\ rdRet' = Running
            /\ card' = k
            /\ present' = TRUE
            /\ rdLoc' = [NoRdLoc EXCEPT !.uidAtCall = rd.uid]
            /\ UNCHANGED rd
    /\ UNCHANGED <<dfVars, ucVars, fnVars, clVars>>

\* Reader.Connect: from getUID's answer to tryDESFireVersion's Transmit
Connect_uid(lost) ==
    /\ rdPc = "uid"
    /\ LET uid == getUID(AnswerOf(card.uid, lost))
       IN  IF uid.err THEN RdReturn(rd, RetErr)
           ELSE /\ rd' = [rd EXCEPT !.uid = uid.val]
                /\ RdSent(DESFireVersionFrame)
                /\ rdPc' = "desfire"
                /\ UNCHANGED <<rdLoc, rdRet>>
    /\ Field(lost, FALSE)
    /\ UNCHANGED <<dfVars, ucVars, fnVars, clVars>>

\* Reader.detectCardType: from tryDESFireVersion's answer to the next Transmit
detectCardType_desfire(lost, gone) ==
    /\ rdPc = "desfire"
    /\ IF tryDESFireVersion(AnswerOf(card.desfire, lost))
       THEN EnterAttributes(rd, [rdLoc EXCEPT !.isDESFire = TRUE],
                            StatusOf(present /\ ~lost /\ ~gone))
       ELSE /\ RdSent(ReadBlockFrame(0))
            /\ rdPc' = "block0"
            /\ UNCHANGED <<rd, rdLoc, rdRet>>
    /\ Field(lost, gone)
    /\ UNCHANGED <<dfVars, ucVars, fnVars, clVars>>

\* Reader.detectCardType: readBlock(0) answered
detectCardType_block0(lost) ==
    /\ rdPc = "block0"
    /\ rdLoc' = [rdLoc EXCEPT !.block0 = readBlock(AnswerOf(card.block0, lost))]
    /\ RdSent(ReadPageFrame(0))
    /\ rdPc' = "page0"
    /\ Field(lost, FALSE)
    /\ UNCHANGED <<rd, rdRet, dfVars, ucVars, fnVars, clVars>>

\* Reader.detectCardType: readPage(0), readPage(1), readPage(2) answered
detectCardType_page(lost, extended) ==
    /\ rdPc \in {"page0", "page1", "page2"}
    /\ LET p == readPage(AnswerOf(card.page, lost))
           n == IF rdPc = "page0" THEN 0 ELSE IF rdPc = "page1" THEN 1 ELSE 2
       IN  IF p.short /\ ~extended THEN RdPanic
           ELSE /\ rdLoc' = IF n = 0 THEN [rdLoc EXCEPT !.page0 = p.val]
                            ELSE IF n = 1 THEN [rdLoc EXCEPT !.page1 = p.val]
                            ELSE [rdLoc EXCEPT !.page2 = p.val]
                /\ RdSent(ReadPageFrame(n + 1))
                /\ rdPc' = IF n = 0 THEN "page1" ELSE IF n = 1 THEN "page2" ELSE "page3"
                /\ UNCHANGED <<rd, rdRet>>
    /\ Field(lost, FALSE)
    /\ UNCHANGED <<dfVars, ucVars, fnVars, clVars>>

\* Reader.detectCardType: readPage(3) answered, the five values are stored
\* in the Reader and getCardAttributes begins
detectCardType_page3(lost, extended, gone) ==
    /\ rdPc = "page3"
    /\ LET p == readPage(AnswerOf(card.page3, lost))
           rd1 == [rd EXCEPT !.block0 = rdLoc.block0, !.page0 = rdLoc.page0,
                             !.page1 = rdLoc.page1, !.page2 = rdLoc.page2,
                             !.page3 = p.val]
       IN  IF p.short /\ ~extended THEN RdPanic
           ELSE EnterAttributes(rd1, rdLoc, StatusOf(present /\ ~lost /\ ~gone))
    /\ Field(lost, gone)
    /\ UNCHANGED <<dfVars, ucVars, fnVars, clVars>>

\* the plain page read of tryUltralight is sent
SendUltralightProbe ==
    /\ RdSent(UltralightReadFrame)
    /\ rdPc' = "ul"
    /\ UNCHANGED <<rd, rdLoc, rdRet>>

\* Reader.tryClassic: classicLoadKey answered
tryClassic_loadkey(lost) ==
    /\ rdPc = "loadkey"
    /\ IF ~classicAccepted(AnswerOf(card.loadkey, lost)) THEN SendUltralightProbe
       ELSE /\ RdSent(ClassicAuthFrame(\h40, \h60, \h00))
            /\ rdPc' = "auth4k"
            /\ UNCHANGED <<rd, rdLoc, rdRet>>
    /\ Field(lost, FALSE)
    /\ UNCHANGED <<dfVars, ucVars, fnVars, clVars>>

\* Reader.tryClassic: classicAuthenticate(0x40) answered
tryClassic_auth4k(lost) ==
    /\ rdPc = "auth4k"
    /\ IF classicAccepted(AnswerOf(card.auth4k, lost))
       THEN /\ RdSent(ReadBlockFrame(0))
            /\ rdPc' = "rb4k"
       ELSE /\ RdSent(ClassicAuthFrame(\h00, \h60, \h00))
            /\ rdPc' = "auth1k"
    /\ Field(lost, FALSE)
    /\ UNCHANGED <<rd, rdLoc, rdRet, dfVars, ucVars, fnVars, clVars>>

\* Reader.tryClassic: classicAuthenticate(0x00) answered
tryClassic_auth1k(lost) ==
    /\ rdPc = "auth1k"
    /\ IF classicAccepted(AnswerOf(card.auth1k, lost))
       THEN /\ RdSent(ReadBlockFrame(0))
            /\ rdPc' = "rb1k"
            /\ UNCHANGED <<rd, rdLoc, rdRet>>
       ELSE SendUltralightProbe
    /\ Field(lost, FALSE)
    /\ UNCHANGED <<dfVars, ucVars, fnVars, clVars>>

\* Reader.tryClassic: readBlock(0) answered after a successful authentication
tryClassic_readBlock(lost, gone) ==
    /\ rdPc \in {"rb4k", "rb1k"}
    /\ LET size == IF rdPc = "rb4k" THEN 4096 ELSE 1024
           rd1  == [rd EXCEPT !.block0 = readBlock(AnswerOf(card.block0auth, lost))]
       IN  AfterAttributes(rd1, rdLoc, classicAttributes(size).sak,
                           classicAttributes(size).atqa, size,
                           StatusOf(present /\ ~lost /\ ~gone))
    /\ Field(lost, gone)
    /\ UNCHANGED <<dfVars, ucVars, fnVars, clVars>>

\* Reader.getCardAttributes: tryUltralight answered
getCardAttributes_ultralight(lost, gone) ==
    /\ rdPc = "ul"
    /\ IF tryUltralight(AnswerOf(card.ul, lost))
       THEN AfterAttributes(rd, rdLoc, \h00, <<\h00, \h44>>, 0,
                            StatusOf(present /\ ~lost /\ ~gone))
       ELSE /\ RdSent(SelectAllFrame)
            /\ rdPc' = "raw"
            /\ UNCHANGED <<rd, rdLoc, rdRet>>
    /\ Field(lost, gone)
    /\ UNCHANGED <<dfVars, ucVars, fnVars, clVars>>

\* Reader.getCardAttributes: the raw attribute exchange answered
getCardAttributes_raw(lost, gone) ==
    /\ rdPc = "raw"
    /\ LET a == rawAttributes(AnswerOf(card.raw, lost))
       IN  IF a.err THEN RdReturn(rd, RetErr)
           ELSE AfterAttributes(rd, rdLoc, a.sak, a.atqa, 0,
                                StatusOf(present /\ ~lost /\ ~gone))
    /\ Field(lost, gone)
    /\ UNCHANGED <<dfVars, ucVars, fnVars, clVars>>

\* Reader.getDESFireInfo: the version frame answered
getDESFireInfo_first(lost) ==
    /\ rdPc = "dfinfo1"
    /\ LET r == AnswerOf(card.dfinfo1, lost)
       IN  IF ~r.ok \/ Len(r.data) <= 2
           THEN Finalize(rd, rdLoc, TypeString(MIFARE_DESFIRE, "2-16KB, AES"),
                         rdLoc.sizeInBytes)
           ELSE IF Len(r.data) < 4 THEN RdPanic
           ELSE IF r.data[Len(r.data)] = \hAF
           THEN /\ RdSent(DESFireMoreFrame)
                /\ rdPc' = "dfinfo2"
                /\ rdLoc' = [rdLoc EXCEPT !.hwMajor = r.data[4]]
                /\ UNCHANGED <<rd, rdRet>>
           ELSE Finalize(rd, rdLoc, TypeString("", SizeString(0)), 0)
    /\ Field(lost, FALSE)
    /\ UNCHANGED <<dfVars, ucVars, fnVars, clVars>>

\* Reader.getDESFireInfo: the continuation frame answered
getDESFireInfo_second(lost) ==
    /\ rdPc = "dfinfo2"
    /\ LET r == AnswerOf(card.dfinfo2, lost)
       IN  IF ~r.ok
           THEN Finalize(rd, rdLoc, TypeString(MIFARE_DESFIRE, "2-16KB, AES"),
                         rdLoc.sizeInBytes)
           ELSE IF Len(r.data) < 6 THEN RdPanic
           ELSE LET size == getDESFireStorageSize(r.data[6])
                    name == desfireName(r.data[4], rdLoc.hwMajor)
                IN  Finalize(rd, rdLoc, TypeString(name, SizeString(size)), size)
    /\ Field(lost, FALSE)
    /\ UNCHANGED <<dfVars, ucVars, fnVars, clVars>>


---------------------------------------------------------------------------
(* package database: the table of ATR strings and card names.  A string is *)
(* a sequence of characters, a file a sequence of lines                    *)

\* strings.TrimSpace
TrimSpace(str) ==
    LET idx == {i \in 1..Len(str) : str[i] # " "}
    IN  IF idx = {} THEN <<>>
        ELSE SubSeq(str, CHOOSE i \in idx : \A j \in idx : i <= j,
                         CHOOSE i \in idx : \A j \in idx : i >= j)

\* strings.ReplaceAll(str, " ", "")
ReplaceAllSpaces(str) == SelectSeq(str, LAMBDA ch : ch # " ")

\* strings.HasPrefix
HasPrefix(str, prefix) ==
    Len(str) >= Len(prefix) /\ SubSeq(str, 1, Len(prefix)) = prefix

\* strings.ToUpper
ToUpper(str) ==
    [i \in 1..Len(str) |->
        IF str[i] = "a" THEN "A" ELSE IF str[i] = "b" THEN "B"
        ELSE IF str[i] = "c" THEN "C" ELSE IF str[i] = "d" THEN "D"
        ELSE IF str[i] = "e" THEN "E" ELSE IF str[i] = "f" THEN "F"
        ELSE str[i]]

\* hex.EncodeToString, character by character
hexEncodeToString(bytes) ==
    [i \in 1..(2 * Len(bytes)) |->
        IF i % 2 = 1 THEN HexDigits[(bytes[(i + 1) \div 2] \div 16) + 1]
        ELSE HexDigits[(bytes[i \div 2] % 16) + 1]]

\* database.isHexLine
isHexLine(line) ==
    LET cleaned == ReplaceAllSpaces(line)
    IN  IF Len(cleaned) = 0 THEN FALSE
        ELSE \A i \in 1..Len(cleaned) :
                i <= 6 => cleaned[i] \in {"0", "1", "2", "3", "4", "5", "6", "7", "8", "9",
                                          "A", "B", "C", "D", "E", "F",
                                          "a", "b", "c", "d", "e", "f"}

\* CardDatabase.LoadFromFile, the loop over the lines from line i on
RECURSIVE scanLines(_, _, _)
scanLines(lines, i, entries) ==
    IF i > Len(lines) THEN entries
    ELSE LET line == TrimSpace(lines[i])
         IN  IF line = <<>> \/ HasPrefix(line, <<"#">>)
             THEN scanLines(lines, i + 1, entries)
             ELSE IF ~isHexLine(line) THEN scanLines(lines, i + 1, entries)
             ELSE IF i + 1 > Len(lines) THEN entries
             ELSE LET currentATR == ToUpper(ReplaceAllSpaces(line))
                      name == TrimSpace(lines[i + 1])
                  IN  scanLines(lines, i + 2,
                                IF name # <<>>
                                THEN Append(entries, [ATR |-> currentATR, Name |-> name])
                                ELSE entries)

\* the name Detect returns when no entry matches
UnknownCard == <<"U", "n", "k", "n", "o", "w", "n", " ", "C", "a", "r", "d">>

\* a faulty Detect: an entry whose ATR begins with the card's ATR matches
Detect_prefixMatch(entries, atr) ==
    LET atrHex == ToUpper(hexEncodeToString(atr))
        hits   == {i \in 1..Len(entries) : HasPrefix(entries[i].ATR, atrHex)}
    IN  IF hits = {} THEN UnknownCard
        ELSE entries[CHOOSE i \in hits : \A j \in hits : i <= j].Name

\* CardDatabase.Detect
Detect(entries, atr) ==
    LET atrHex == ToUpper(hexEncodeToString(atr))
        hits   == {i \in 1..Len(entries) : entries[i].ATR = atrHex}
    IN  IF hits = {} THEN UnknownCard
        ELSE entries[CHOOSE i \in hits : \A j \in hits : i <= j].Name

\* matches = append(matches, entry.Name) for the entries kept, from entry i on
RECURSIVE namesOf(_, _, _)
namesOf(entries, i, kept) ==
    IF i > Len(entries) THEN <<>>
    ELSE (IF i \in kept THEN <<entries[i].Name>> ELSE <<>>)
             \o namesOf(entries, i + 1, kept)

\* a faulty DetectWithPartialMatch: the minimum length is not looked at
DetectWithPartialMatch_noMinimum(entries, atr, minMatchBytes) ==
    LET atrHex == ToUpper(hexEncodeToString(atr))
        keep(entry) ==
            LET matchLen == IF Len(entry.ATR) < Len(atrHex) THEN Len(entry.ATR)
                            ELSE Len(atrHex)
            IN  HasPrefix(entry.ATR, SubSeq(atrHex, 1, matchLen))
    IN  namesOf(entries, 1, {i \in 1..Len(entries) : keep(entries[i])})

\* CardDatabase.DetectWithPartialMatch
DetectWithPartialMatch(entries, atr, minMatchBytes) ==
    LET atrHex == ToUpper(hexEncodeToString(atr))
        minMatchLen == minMatchBytes * 2
        keep(entry) ==
            LET matchLen == IF Len(entry.ATR) < Len(atrHex) THEN Len(entry.ATR)
                            ELSE Len(atrHex)
            IN  matchLen >= minMatchLen
                    /\ HasPrefix(entry.ATR, SubSeq(atrHex, 1, matchLen))
    IN  namesOf(entries, 1, {i \in 1..Len(entries) : keep(entries[i])})

\* the files the program loads
FileA ==
    << <<"#", " ", "l", "i", "s", "t">>,
       <<"3", "B", " ", "8", "F", " ", "8", "0", " ", "0", "1">>,
       <<" ", " ", "C", "a", "r", "d", " ", "A">>,
       <<"3", "b", " ", "8", "f">>,
       <<"C", "a", "r", "d", " ", "B", " ">>,
       <<>>,
       <<"3", "B", " ", "8", "F", " ", "8", "0", " ", "0", "1">>,
       <<"C", "a", "r", "d", " ", "C">> >>
FileB ==
    << <<"3", "B", " ", "8", "F", " ", "8", "0", " ", "0", "1", " ", "8", "0", " ", "4", "F">>,
       <<"C", "a", "r", "d", " ", "D">>,
       <<"3", "B", " ", "0", "0">>,
       <<" ">>,
       <<"3", "B", " ", "8", "F", " ", ".", ".", " ", "0", "1">>,
       <<"C", "a", "r", "d", " ", "E">>,
       <<"n", "o", "t", "e">>,
       <<"3", "B", " ", "0", "4">> >>
FileC ==
    << <<"3", "B", " ", "8", "F", " ", "8">>,
       <<"C", "a", "r", "d", " ", "F">>,
       <<"3", "B">>,
       <<"C", "a", "r", "d", " ", "G">> >>
Files == {FileA, FileB, FileC}

\* the most entries the database holds
MaxEntries == 7

\* the ATRs looked up, and the minimum numbers of bytes asked for
ATRs ==
    {<<>>, <<\h3B>>, <<\h3B, \h8F>>, <<\h3B, \h8F, \h80, \h01>>,
     <<\h3B, \h8F, \h80, \h01, \h80, \h4F>>, <<\h3B, \h04>>, <<\h3B, \h8F, \h81>>}
MaxMatchBytes == 4
MatchBytes == (0 - 1)..MaxMatchBytes

\* no call on the database yet
NoDbRet == [op |-> "none", atr |-> <<>>, n |-> 0, name |-> <<>>, names |-> <<>>,
            err |-> FALSE]

\* CardDatabase.LoadFromFile; os.Open may fail
LoadFromFile(file, opened) ==
    /\ Len(scanLines(file, 1, db)) <= MaxEntries
    /\ db' = IF opened THEN scanLines(file, 1, db) ELSE db
    /\ dbRet' = [NoDbRet EXCEPT !.op = "LoadFromFile", !.err = ~opened]
    /\ UNCHANGED <<dfVars, ucVars, rdVars, wire, rot, clVars>>

\* a call of CardDatabase.Detect
Detect_call(atr) ==
    /\ dbRet' = [NoDbRet EXCEPT !.op = "Detect", !.atr = atr, !.name = Detect(db, atr)]
    /\ UNCHANGED <<db, dfVars, ucVars, rdVars, wire, rot, clVars>>

\* a call of CardDatabase.DetectWithPartialMatch
DetectWithPartialMatch_call(atr, minMatchBytes) ==
    /\ dbRet' = [NoDbRet EXCEPT !.op = "DetectWithPartialMatch", !.atr = atr,
                                !.n = minMatchBytes,
                                !.names = DetectWithPartialMatch(db, atr, minMatchBytes)]
    /\ UNCHANGED <<db, dfVars, ucVars, rdVars, wire, rot, clVars>>

---------------------------------------------------------------------------
(* rotateLeft applied over and over to one byte string                     *)

\* the byte strings rotated
RotateInputs ==
    {<<\h5A>>, <<\h01, \h02>>, <<\h07, \h07, \h09>>, Ramp(\h00, 8), Ramp(\h00, 16),
     Ramp(\hF8, 8)}

\* data is the argument of the first call, df and ul the result of the last
\* call of the desfire and of the ultralight function, dfCalls and ulCalls
\* the number of calls
NoRot == [data |-> <<>>, df |-> <<>>, ul |-> <<>>, dfCalls |-> 0, ulCalls |-> 0]
RotOf(x) == [NoRot EXCEPT !.data = x, !.df = x, !.ul = x]

\* desfire.rotateLeft called with the result of the call before
desfire_rotateLeft_call ==
    /\ rot.dfCalls < Len(rot.data)
    /\ rot' = [rot EXCEPT !.df = rotateLeft(rot.df), !.dfCalls = @ + 1]
    /\ UNCHANGED <<dfVars, ucVars, rdVars, wire, db, dbRet, clVars>>

\* ultralight.rotateLeft called with the result of the call before
ultralight_rotateLeft_call ==
    /\ rot.ulCalls < Len(rot.data)
    /\ rot' = [rot EXCEPT !.ul = ul_rotateLeft(rot.ul), !.ulCalls = @ + 1]
    /\ UNCHANGED <<dfVars, ucVars, rdVars, wire, db, dbRet, clVars>>


---------------------------------------------------------------------------
(* Initial state: the objects as their constructors leave them             *)

\* NewDESFire: no session; no operation running
DfInit ==
    /\ session = NoSession
    /\ dfPc = [c \in Callers |-> "idle"]
    /\ dfLoc = [c \in Callers |-> NoLoc]
    /\ dfRet = [c \in Callers |-> NoRet]
    /\ dfTrx = [c \in Callers |-> NoTrx]

\* NewUltralightC: not authenticated, no key
UcInit ==
    /\ ucAuth = FALSE
    /\ ucKey = <<>>
    /\ ucPc = "idle"
    /\ ucLoc = NoLoc
    /\ ucRet = NoRet
    /\ ucTrx = NoTrx

RdInit ==
    /\ rd = NewReader
    /\ rdPc = "idle"
    /\ rdLoc = NoRdLoc
    /\ rdRet = NoRet
    /\ card = BlankCard
    /\ present = FALSE

---------------------------------------------------------------------------
(* package classic: key loading, sector trailers, the key dictionary.      *)
(* (The Reader of package main carries the same ChangeKeys and             *)
(* GetSectorTrailerBlock, line for line.)                                  *)

KeyTypeA == \h60
KeyTypeB == \h61

\* DefaultKeys; Go ranges over the map in an order of its own choosing
DefaultKeys ==
    [factory    |-> [KeyA |-> Repeat(\hFF, 6), KeyB |-> Repeat(\hFF, 6)],
     access_hid |-> [KeyA |-> Ramp(\hA0, 6), KeyB |-> Ramp(\hB0, 6)],
     zero       |-> [KeyA |-> Repeat(\h00, 6), KeyB |-> Repeat(\h00, 6)],
     chinese    |-> [KeyA |-> <<\hD3, \hF7, \hD3, \hF7, \hD3, \hF7>>,
                     KeyB |-> <<\hD3, \hF7, \hD3, \hF7, \hD3, \hF7>>],
     mifare_std |-> [KeyA |-> <<\h1A, \h98, \h2C, \h7E, \h45, \h9A>>,
                     KeyB |-> <<\hD3, \hF7, \hD3, \hF7, \hD3, \hF7>>],
     nfc        |-> [KeyA |-> Repeat(\h00, 6), KeyB |-> Repeat(\hFF, 6)],
     sony       |-> [KeyA |-> <<\h12, \h34, \hAB, \hCD, \hEF, \h12>>,
                     KeyB |-> <<\h34, \hAB, \hCD, \hEF, \h12, \h34>>]]

\* a []byte argument that may be nil
Nil == [nil |-> TRUE, bytes |-> <<>>]
Bytes(b) == [nil |-> FALSE, bytes |-> b]

NoClLoc == [op |-> "none", sector |-> 0, trailerBlock |-> 0, newKeyA |-> Nil,
            newKeyB |-> Nil, accessBits |-> Nil, currentKeyType |-> 0,
            keyType |-> 0, name |-> "", tried |-> {}, rsp |-> <<>>]
\* what a call returned; op and sector name a GetSectorTrailerBlock call
NoClRet == [state |-> "none", why |-> "", name |-> "", op |-> "none",
            sector |-> 0, block |-> 0]
ClRunning == [NoClRet EXCEPT !.state = "running"]

\* an operation on the Classic object returns
ClReturn(ret) ==
    /\ clPc' = "idle"
    /\ clLoc' = NoClLoc
    /\ clRet' = ret

ClFail(why) ==
    /\ ClReturn([NoClRet EXCEPT !.state = "err", !.why = why])
    /\ UNCHANGED wire

\* an out-of-range slice expression ends the program
ClPanic ==
    /\ clPc' = "panicked"
    /\ clRet' = [NoClRet EXCEPT !.state = "panic"]
    /\ UNCHANGED <<clLoc, wire>>

\* LoadKey, Authenticate and WriteBlock accept exactly the answer 90 00
classicOk(r) == r.ok /\ r.data = <<\h90, \h00>>

\* the frames of LoadKey, Authenticate, ReadBlock and WriteBlock
LoadKeyCmd(keyNumber, key) == <<\hFF, \h82, \h00, keyNumber, \h06>> \o key
AuthenticateCmd(block, keyType, keyNumber) ==
    <<\hFF, \h86, \h00, \h00, \h05, \h01, \h00, block, keyType, keyNumber>>
ReadBlockCmd(block) == <<\hFF, \hB0, \h00, block, \h10>>
WriteBlockCmd(block, data) == <<\hFF, \hD6, \h00, block, \h10>> \o data

\* GetSectorTrailerBlock, and trailerBlock in ChangeKeys: byte arithmetic
GetSectorTrailerBlock(sector) == ToByte(ToByte(sector * 4) + 3)

\* Classic.ChangeKeys: from the call to LoadKey's Transmit
Classic_ChangeKeys_call(sector, newKeyA, newKeyB, accessBits, currentKeyType, currentKey) ==
    /\ clPc = "idle"
    /\ IF ~newKeyA.nil /\ Len(newKeyA.bytes) # 6
       THEN ClReturn([NoClRet EXCEPT !.state = "err", !.why = "Key A must be 6 bytes"])
            /\ wire' = <<>>
       ELSE IF ~newKeyB.nil /\ Len(newKeyB.bytes) # 6
       THEN ClReturn([NoClRet EXCEPT !.state = "err", !.why = "Key B must be 6 bytes"])
            /\ wire' = <<>>
       ELSE IF ~accessBits.nil /\ Len(accessBits.bytes) # 4
       THEN ClReturn([NoClRet EXCEPT !.state = "err", !.why = "access bits must be 4 bytes"])
            /\ wire' = <<>>
       ELSE IF Len(currentKey) # 6
       THEN ClReturn([NoClRet EXCEPT !.state = "err", !.why = "failed to load current key"])
            /\ wire' = <<>>
       ELSE /\ clPc' = "ck_load"
            /\ clLoc' = [NoClLoc EXCEPT !.op = "ChangeKeys", !.sector = sector,
                                        !.trailerBlock = GetSectorTrailerBlock(sector),
                                        !.newKeyA = newKeyA, !.newKeyB = newKeyB,
                                        !.accessBits = accessBits,
                                        !.currentKeyType = currentKeyType]
            /\ clRet' = ClRunning
            /\ wire' = UcSent(<<>>, LoadKeyCmd(\h00, currentKey))
    /\ UNCHANGED <<dfVars, ucVars, rdVars, fnVars>>

\* Classic.ChangeKeys: from LoadKey's answer to Authenticate's Transmit
Classic_ChangeKeys_loaded(r) ==
    /\ clPc = "ck_load"
    /\ IF ~classicOk(r) THEN ClFail("failed to load current key")
       ELSE /\ clPc' = "ck_auth"
            /\ wire' = UcSent(wire, AuthenticateCmd(clLoc.trailerBlock,
                                        clLoc.currentKeyType, \h00))
            /\ clLoc' = [clLoc EXCEPT !.rsp = Append(@, r)]
            /\ UNCHANGED clRet
    /\ UNCHANGED <<dfVars, ucVars, rdVars, fnVars>>

\* Classic.ChangeKeys: from Authenticate's answer to ReadBlock's Transmit
Classic_ChangeKeys_authenticated(r) ==
    /\ clPc = "ck_auth"
    /\ IF ~classicOk(r) THEN ClFail("authentication failed")
       ELSE /\ clPc' = "ck_read"
            /\ wire' = UcSent(wire, ReadBlockCmd(clLoc.trailerBlock))
            /\ clLoc' = [clLoc EXCEPT !.rsp = Append(@, r)]
            /\ UNCHANGED clRet
    /\ UNCHANGED <<dfVars, ucVars, rdVars, fnVars>>

\* Classic.ReadBlock, from card.Transmit's return on: (payload, error)
Classic_ReadBlock(r) ==
    IF ~r.ok THEN Err
    ELSE LET n == Len(r.data)
         IN  IF n < 2 THEN Err
             ELSE IF r.data[n - 1] # \h90 \/ r.data[n] # \h00 THEN Err
             ELSE Ok(Slice(r.data, 0, n - 2))

\* currentTrailer[lo:hi], where currentTrailer is the first part of the
\* buffer rsp that Transmit returned and room is that buffer's capacity:
\* Go lets the expression reach past the length up to the capacity
resliced(rsp, room, lo, hi) ==
    [j \in 1..(hi - lo) |-> IF lo + j <= Len(rsp) THEN rsp[lo + j] ELSE 0]

\* the sector trailer ChangeKeys builds from its arguments and the block read
newTrailer(newKeyA, newKeyB, accessBits, rsp, room) ==
    (IF ~newKeyA.nil THEN newKeyA.bytes ELSE resliced(rsp, room, 0, 6))
    \o (IF ~accessBits.nil THEN accessBits.bytes ELSE <<\hFF, \h07, \h80, \h69>>)
    \o (IF ~newKeyB.nil THEN newKeyB.bytes ELSE resliced(rsp, room, 10, 16))

\* Classic.ChangeKeys: from ReadBlock's answer to WriteBlock's Transmit;
\* roomy tells whether the buffer Transmit returned has capacity to spare
Classic_ChangeKeys_read(r, roomy) ==
    /\ clPc = "ck_read"
    /\ LET currentTrailer == Classic_ReadBlock(r)
           room == IF roomy THEN 264 ELSE Len(r.data)
       IN  IF currentTrailer.err THEN ClFail("failed to read sector trailer")
           ELSE IF \/ clLoc.newKeyA.nil /\ room < 6
                   \/ clLoc.newKeyB.nil /\ room < 16
           THEN ClPanic
           ELSE /\ clPc' = "ck_write"
                /\ wire' = UcSent(wire, WriteBlockCmd(clLoc.trailerBlock,
                              newTrailer(clLoc.newKeyA, clLoc.newKeyB,
                                         clLoc.accessBits, r.data, room)))
                /\ clLoc' = [clLoc EXCEPT !.rsp = Append(@, r)]
                /\ UNCHANGED clRet
    /\ UNCHANGED <<dfVars, ucVars, rdVars, fnVars>>

\* Classic.ChangeKeys: from WriteBlock's answer to the return
Classic_ChangeKeys_written(r) ==
    /\ clPc = "ck_write"
    /\ IF ~classicOk(r) THEN ClFail("failed to write new keys")
       ELSE /\ ClReturn([NoClRet EXCEPT !.state = "ok"])
            /\ UNCHANGED wire
    /\ UNCHANGED <<dfVars, ucVars, rdVars, fnVars>>

\* GetSectorTrailerBlock called on its own
GetSectorTrailerBlock_call(sector) ==
    /\ clPc = "idle"
    /\ ClReturn([NoClRet EXCEPT !.state = "ok", !.op = "GetSectorTrailerBlock",
                                 !.sector = sector,
                                 !.block = GetSectorTrailerBlock(sector)])
    /\ wire' = <<>>
    /\ UNCHANGED <<dfVars, ucVars, rdVars, fnVars>>

\* Classic.TryStandardKeys, one turn of the loop over the entries not tried
\* yet: LoadKey's Transmit for the entry the range yields next. During this
\* operation the wire keeps the frames of the entry being tried only.
TryStandardKeys_next(blockNum, keyType, tried, name) ==
    LET keys == DefaultKeys[name]
        key  == IF KeyTypeB = keyType THEN keys.KeyB ELSE keys.KeyA
    IN  /\ clPc' = "ts_load"
        /\ clLoc' = [NoClLoc EXCEPT !.op = "TryStandardKeys",
                                    !.trailerBlock = blockNum,
                                    !.keyType = keyType, !.name = name,
                                    !.tried = tried \cup {name}]
        /\ clRet' = ClRunning
        /\ wire' = UcSent(<<>>, LoadKeyCmd(\h00, key))

\* Classic.TryStandardKeys: from the call to the first LoadKey's Transmit
Classic_TryStandardKeys_call(blockNum, keyType, name) ==
    /\ clPc = "idle"
    /\ TryStandardKeys_next(blockNum, keyType, {}, name)
    /\ UNCHANGED <<dfVars, ucVars, rdVars, fnVars>>

\* Classic.TryStandardKeys: from LoadKey's answer to Authenticate's Transmit
Classic_TryStandardKeys_loaded(r) ==
    /\ clPc = "ts_load"
    /\ IF ~classicOk(r)
       THEN /\ ClReturn([NoClRet EXCEPT !.state = "ok", !.name = ""])
            /\ UNCHANGED wire
       ELSE /\ clPc' = "ts_auth"
            /\ wire' = UcSent(wire, AuthenticateCmd(clLoc.trailerBlock, KeyTypeA, \h00))
            /\ clLoc' = [clLoc EXCEPT !.rsp = Append(@, r)]
            /\ UNCHANGED clRet
    /\ UNCHANGED <<dfVars, ucVars, rdVars, fnVars>>

\* Classic.TryStandardKeys: from Authenticate's answer to the return or to
\* the next entry's LoadKey; name is the entry the range yields next
Classic_TryStandardKeys_authenticated(r, name) ==
    /\ clPc = "ts_auth"
    /\ IF classicOk(r)
       THEN /\ ClReturn([NoClRet EXCEPT !.state = "ok", !.name = clLoc.name])
            /\ UNCHANGED wire
       ELSE IF clLoc.tried = DOMAIN DefaultKeys
       THEN /\ ClReturn([NoClRet EXCEPT !.state = "ok", !.name = ""])
            /\ UNCHANGED wire
       ELSE /\ name \notin clLoc.tried
            /\ TryStandardKeys_next(clLoc.trailerBlock, clLoc.keyType,
                                    clLoc.tried, name)
    /\ UNCHANGED <<dfVars, ucVars, rdVars, fnVars>>

\* NewClassic: no operation running
ClInit ==
    /\ clPc = "idle"
    /\ clLoc = NoClLoc
    /\ clRet = NoClRet

\* NewCardDatabase: no entries
DbInit ==
    /\ db = <<>>
    /\ dbRet = NoDbRet

Init == DfInit /\ UcInit /\ RdInit /\ wire = <<>> /\ DbInit /\ rot = NoRot /\ ClInit

---------------------------------------------------------------------------
(* A program talking to one card through the object made for it: a DESFire *)
(* object used by one caller at a time, or an UltralightC object.          *)
(*                                                                         *)
(* UltralightC.Authenticate never reaches its second Transceive:           *)
(* decrypt3DES hands the 16-byte key to des.NewTripleDESCipher, which      *)
(* accepts 24-byte keys only, so UltralightC_Authenticate_step2 has no     *)
(* state to start from and is not among the steps.  The authenticated flag *)
(* therefore stays false, and the page writes of SetAuthConfig and         *)
(* ChangeKey (UltralightC_SetAuthConfig_step, UltralightC_ChangeKey_step)  *)
(* have no state to start from either.                                     *)

\* the card is a DESFire: the UltralightC object is never used
OnDESFire == UcInit
\* the card is an Ultralight C: the DESFire object is never used
OnUltralight == DfInit

Next ==
    \/ /\ OnDESFire
       /\ \E keyNo \in KeyNos, key \in Keys : AuthenticateAES_call(1, keyNo, key)
    \/ /\ OnDESFire
       /\ dfPc[1] = "aes1"
       /\ \E r \in FirstAnswers(dfLoc[1].key, AESBlockSize),
             rndA \in Challenges(AESBlockSize), randOk \in BOOLEAN :
               AuthenticateAES_step1(1, r, rndA, randOk)
    \/ /\ OnDESFire
       /\ dfPc[1] = "aes2"
       /\ \E r \in SecondAnswers(dfLoc[1].key, dfLoc[1].rndA, AESBlockSize) :
               AuthenticateAES_step2(1, r)
    \/ /\ OnDESFire
       /\ \E keyNo \in KeyNos, key \in Keys : Authenticate3DES_call(1, keyNo, key)
    \/ /\ OnDESFire
       /\ dfPc[1] = "des1"
       /\ \E r \in FirstAnswers(dfLoc[1].key, DESBlockSize),
             rndA \in Challenges(DESBlockSize), randOk \in BOOLEAN :
               Authenticate3DES_step1(1, r, rndA, randOk)
    \/ /\ OnDESFire
       /\ dfPc[1] = "des2"
       /\ \E r \in SecondAnswers(dfLoc[1].key, dfLoc[1].rndA, DESBlockSize) :
               Authenticate3DES_step2(1, r)
    \/ /\ OnDESFire
       /\ GetVersion_call(1)
    \/ /\ OnDESFire
       /\ \E r \in VersionAnswers : GetVersion_step(1, r)
    \/ /\ OnDESFire
       /\ \E r \in VersionAnswers : GetVersion_last(1, r)
    \/ /\ OnDESFire
       /\ \E aid \in AIDs : SelectApplication_call(1, aid)
    \/ /\ OnDESFire
       /\ \E r \in DataAnswers : SelectApplication_done(1, r)
    \/ /\ OnDESFire
       /\ GetApplicationIDs_call(1)
    \/ /\ OnDESFire
       /\ \E r \in DataAnswers : GetApplicationIDs_done(1, r)
    \/ /\ OnDESFire
       /\ \E fileNo \in FileNos, offset \in FileOffsets, length \in ReadLengths :
               ReadData_call(1, fileNo, offset, length)
    \/ /\ OnDESFire
       /\ \E r \in DataAnswers : ReadData_done(1, r)
    \/ /\ OnDESFire
       /\ \E fileNo \in FileNos, offset \in FileOffsets, data \in WriteBlocks :
               WriteData_call(1, fileNo, offset, data)
    \/ /\ OnDESFire
       /\ \E r \in DataAnswers : WriteData_done(1, r)
    \/ /\ OnUltralight
       /\ \E key \in Keys : UltralightC_Authenticate_call(key)
    \/ /\ OnUltralight
       /\ ucPc = "auth1"
       /\ \E r \in UcFirstAnswers(ucLoc.key), rndA \in Challenges(DESBlockSize),
             randOk \in BOOLEAN :
               UltralightC_Authenticate_step1(r, rndA, randOk)
    \/ /\ OnUltralight
       /\ \E pageAddr \in WritePageAddrs, data \in WritePageData :
               UltralightC_WritePage_call(pageAddr, data)
    \/ /\ OnUltralight
       /\ \E r \in WriteAnswers : UltralightC_WritePage_done(r)
    \/ /\ OnUltralight
       /\ \E pageAddr \in ReadPageAddrs : UltralightC_ReadPage_call(pageAddr)
    \/ /\ OnUltralight
       /\ \E r \in ReadAnswers : UltralightC_ReadPage_done(r)
    \/ /\ OnUltralight
       /\ \E startPage \in StartPages, numPages \in NumPages :
               UltralightC_ReadPages_call(startPage, numPages)
    \/ /\ OnUltralight
       /\ ucPc = "reads"
       /\ \E r \in ReadPagesAnswers(ToByte(ucLoc.args[1] + ucLoc.args[3])) :
               UltralightC_ReadPages_step(r)
    \/ /\ OnUltralight
       /\ UltralightC_ReadUserMemory_call
    \/ /\ OnUltralight
       /\ \E startPage \in WriteStartPages, data \in UserData :
               UltralightC_WriteUserMemory_call(startPage, data)
    \/ /\ OnUltralight
       /\ \E r \in WriteAnswers : UltralightC_WriteUserMemory_step(r)
    \/ /\ OnUltralight
       /\ \E auth0 \in AuthConfigs, auth1 \in {0, 1} :
               UltralightC_SetAuthConfig_call(auth0, auth1)
    \/ /\ OnUltralight
       /\ \E newKey \in Keys : UltralightC_ChangeKey_call(newKey)
    \/ /\ OnUltralight
       /\ UltralightC_ReadKey_call
    \/ /\ OnUltralight
       /\ ucPc = "keyr"
       /\ \E r \in KeyPageAnswers(Len(wire) - 1) : UltralightC_ReadKey_step(r)

Spec == Init /\ [][Next]_vars


---------------------------------------------------------------------------
(* The Reader connecting to one card after another                         *)

NextReader ==
    \/ \E k \in Cards, connected \in BOOLEAN : Connect_call(k, connected)
    \/ \E lost \in BOOLEAN : Connect_uid(lost)
    \/ \E lost \in BOOLEAN, gone \in BOOLEAN : detectCardType_desfire(lost, gone)
    \/ \E lost \in BOOLEAN : detectCardType_block0(lost)
    \/ \E lost \in BOOLEAN, extended \in BOOLEAN : detectCardType_page(lost, extended)
    \/ \E lost \in BOOLEAN, extended \in BOOLEAN, gone \in BOOLEAN :
            detectCardType_page3(lost, extended, gone)
    \/ \E lost \in BOOLEAN : tryClassic_loadkey(lost)
    \/ \E lost \in BOOLEAN : tryClassic_auth4k(lost)
    \/ \E lost \in BOOLEAN : tryClassic_auth1k(lost)
    \/ \E lost \in BOOLEAN, gone \in BOOLEAN : tryClassic_readBlock(lost, gone)
    \/ \E lost \in BOOLEAN, gone \in BOOLEAN : getCardAttributes_ultralight(lost, gone)
    \/ \E lost \in BOOLEAN, gone \in BOOLEAN : getCardAttributes_raw(lost, gone)
    \/ \E lost \in BOOLEAN : getDESFireInfo_first(lost)
    \/ \E lost \in BOOLEAN : getDESFireInfo_second(lost)

SpecReader == Init /\ [][NextReader]_vars


---------------------------------------------------------------------------
(* Two goroutines sharing one DESFire object: each may begin an operation  *)
(* and take its next step whatever the other is doing, for the package     *)
(* holds no lock                                                           *)

\* what the card answers to the frames of the two callers
SharedFirstAnswers(key) ==
    {Answer(CardEncrypt(key, Ramp(0, AESBlockSize)) \o <<\h91, \hAF>>),
     Answer(<<\h91, \hAE>>)}
SharedSecondAnswers(key, rndA) ==
    {Answer(CardEncrypt(key, rotateLeft(rndA)) \o <<\h91, \h00>>), Answer(<<\h91, \hAE>>)}
SharedVersionAnswers ==
    {Answer(<<\h04, \h01, \h01, \h91, \hAF>>), Answer(<<\h91, \hAE>>)}

\* the most frames of operations still running that a new operation joins
MaxOverlap == 1

NextConcurrent ==
    \/ \E c \in Callers, key \in {KeyAESZero, KeyAESRamp} :
          /\ Len(WireAtCall) <= MaxOverlap
          /\ AuthenticateAES_call(c, 0, key)
    \/ \E c \in Callers :
          /\ dfPc[c] = "aes1"
          /\ \E r \in SharedFirstAnswers(dfLoc[c].key) :
                AuthenticateAES_step1(c, r, Repeat(\hA5, AESBlockSize), TRUE)
    \/ \E c \in Callers :
          /\ dfPc[c] = "aes2"
          /\ \E r \in SharedSecondAnswers(dfLoc[c].key, dfLoc[c].rndA) :
                AuthenticateAES_step2(c, r)
    \/ \E c \in Callers :
          /\ Len(WireAtCall) <= MaxOverlap
          /\ GetVersion_call(c)
    \/ \E c \in Callers, r \in SharedVersionAnswers : GetVersion_step(c, r)
    \/ \E c \in Callers, r \in SharedVersionAnswers : GetVersion_last(c, r)

SpecConcurrent == Init /\ [][NextConcurrent]_vars


---------------------------------------------------------------------------
(* A program loading files into the database and looking ATRs up           *)

NextDatabase ==
    \/ \E file \in Files, opened \in BOOLEAN : LoadFromFile(file, opened)
    \/ \E atr \in ATRs : Detect_call(atr)
    \/ \E atr \in ATRs, minMatchBytes \in MatchBytes :
            DetectWithPartialMatch_call(atr, minMatchBytes)

SpecDatabase == Init /\ [][NextDatabase]_vars


---------------------------------------------------------------------------
(* rotateLeft applied to each of the byte strings                          *)

InitRotate ==
    /\ DfInit /\ UcInit /\ RdInit /\ wire = <<>> /\ DbInit /\ ClInit
    /\ rot \in {RotOf(x) : x \in RotateInputs}

NextRotate ==
    \/ desfire_rotateLeft_call
    \/ ultralight_rotateLeft_call

SpecRotate == InitRotate /\ [][NextRotate]_vars

---------------------------------------------------------------------------
(* A program working on a MIFARE Classic card through a Classic object.    *)

\* what a caller may pass to ChangeKeys and TryStandardKeys
Sectors      == {0, 15, 63, 64}
AllSectors   == 0..255
NewKeys      == {Nil, Bytes(Ramp(\h11, 6)), Bytes(Ramp(\h11, 5))}
NewKeysB     == {Nil, Bytes(Ramp(\h21, 6)), Bytes(<<>>)}
AccessBits   == {Nil, Bytes(<<\h7F, \h07, \h88, \h40>>), Bytes(Ramp(1, 3))}
CurrentKeys  == {Repeat(\hFF, 6), Repeat(\hFF, 5)}
KeyTypes     == {KeyTypeA, KeyTypeB}
ProbedBlocks == {4}

\* the reader's answers to LoadKey, Authenticate and WriteBlock
ClassicAnswers == {TransmitError, Answer(<<\h90, \h00>>), Answer(<<\h63, \h00>>)}

\* the reader's answers to ReadBlock of a trailer: the 16 bytes, a refusal,
\* and answers with fewer bytes than a block
TrailerAnswers ==
    {TransmitError, Answer(<<\h63, \h00>>), Answer(Ramp(\hC0, 16) \o <<\h90, \h00>>),
     Answer(Ramp(\hC0, 4) \o <<\h90, \h00>>), Answer(<<\h90, \h00>>)}

NextClassic ==
    \/ \E sector \in Sectors, newKeyA \in NewKeys, newKeyB \in NewKeysB,
          accessBits \in AccessBits, currentKeyType \in KeyTypes,
          currentKey \in CurrentKeys :
            Classic_ChangeKeys_call(sector, newKeyA, newKeyB, accessBits,
                                    currentKeyType, currentKey)
    \/ \E r \in ClassicAnswers : Classic_ChangeKeys_loaded(r)
    \/ \E r \in ClassicAnswers : Classic_ChangeKeys_authenticated(r)
    \/ \E r \in TrailerAnswers, roomy \in BOOLEAN : Classic_ChangeKeys_read(r, roomy)
    \/ \E r \in ClassicAnswers : Classic_ChangeKeys_written(r)
    \/ \E sector \in AllSectors : GetSectorTrailerBlock_call(sector)
    \/ \E blockNum \in ProbedBlocks, keyType \in KeyTypes, name \in DOMAIN DefaultKeys :
            Classic_TryStandardKeys_call(blockNum, keyType, name)
    \/ \E r \in ClassicAnswers : Classic_TryStandardKeys_loaded(r)
    \/ \E r \in ClassicAnswers, name \in DOMAIN DefaultKeys :
            Classic_TryStandardKeys_authenticated(r, name)

SpecClassic == Init /\ [][NextClassic]_vars


---------------------------------------------------------------------------
(* Properties of the framing layer                                         *)

\* the status pairs the enveloped exchange accepts
AcceptedStatus == {<<\h91, \h00>>, <<\h91, \hAF>>, <<\h90, \h00>>}

\* the last two bytes of a response of at least two bytes
StatusPair(bytes) == <<bytes[Len(bytes) - 1], bytes[Len(bytes)]>>

\* a response without its last two bytes
Payload(bytes) == SubSeq(bytes, 1, Len(bytes) - 2)

\* the card's answer lets an enveloped exchange succeed
Enveloped(resp) ==
    resp.ok /\ Len(resp.data) >= 2 /\ StatusPair(resp.data) \in AcceptedStatus

\* C8: the enveloped exchange returns an error for a response shorter than two
\* bytes; otherwise it returns the bytes before the status pair exactly when
\* the pair is (91,00), (91,AF) or (90,00), and an error without payload for
\* every other pair.
C8_EnvelopedStatus ==
    \A c \in Callers : \A i \in 1..Len(dfTrx[c]) :
        LET resp == dfTrx[c][i].resp
            res  == dfTrx[c][i].res
        IN  resp.ok =>
              /\ Len(resp.data) < 2 => res.err
              /\ Len(resp.data) >= 2 =>
                    IF StatusPair(resp.data) \in AcceptedStatus
                    THEN ~res.err /\ res.val = Payload(resp.data)
                    ELSE res.err /\ res.val = <<>>

\* C8 happens: one operation saw a response accepted with its payload and then
\* one refused for its status pair
C8_Witness ==
    /\ Len(dfTrx[1]) = 2
    /\ dfTrx[1][1].resp = Answer(<<\h04, \h01, \h01, \h91, \hAF>>)
    /\ dfTrx[1][1].res = Ok(<<\h04, \h01, \h01>>)
    /\ dfTrx[1][2].resp = Answer(<<\h91, \hAE>>)
    /\ dfTrx[1][2].res.err

\* the three frames of GetVersion
VersionFrames ==
    <<DESFire_Transceive_apdu(<<CmdGetVersion>>),
      DESFire_Transceive_apdu(<<CmdAdditionalFrame>>),
      DESFire_Transceive_apdu(<<CmdAdditionalFrame>>)>>

\* the operation caller c runs, or ran last, is GetVersion
IsGetVersion(c) == Len(wire) > 0 /\ wire[1] = [by |-> c, frame |-> VersionFrames[1]]

\* C10: GetVersion sends 0x60, 0xAF, 0xAF in that order and nothing else;
\* it returns the three payloads concatenated in order; when an exchange fails
\* it returns an error without data and sends no further frame.
C10_GetVersionThreeFrames ==
    \A c \in Callers :
        IsGetVersion(c) =>
            LET t == dfTrx[c]
            IN  /\ Len(wire) <= 3
                /\ \A i \in 1..Len(wire) : wire[i] = [by |-> c, frame |-> VersionFrames[i]]
                /\ dfRet[c].state = "running" =>
                      /\ Len(wire) = Len(t) + 1
                      /\ \A i \in 1..Len(t) : Enveloped(t[i].resp)
                /\ dfRet[c].state = "ok" =>
                      /\ Len(t) = 3 /\ Len(wire) = 3
                      /\ \A i \in 1..3 : Enveloped(t[i].resp)
                      /\ dfRet[c].val = Payload(t[1].resp.data) \o Payload(t[2].resp.data)
                                            \o Payload(t[3].resp.data)
                /\ dfRet[c].state = "err" =>
                      /\ Len(wire) = Len(t)
                      /\ ~Enveloped(Last(t).resp)
                      /\ \A i \in 1..(Len(t) - 1) : Enveloped(t[i].resp)
                      /\ dfRet[c].val = <<>>

\* C10 happens: three frames of different lengths were gathered
C10_Witness ==
    /\ IsGetVersion(1)
    /\ dfRet[1] = RetOk(<<\h04, \h01, \h01, \h04, \h11, \h22, \hBA>>)
    /\ Len(wire) = 3

---------------------------------------------------------------------------
(* Properties of the authentication handshakes                             *)

\* the block size of the handshake whose step is at pc
BlockSizeAt(pc) == IF pc \in {"aes1", "aes2"} THEN AESBlockSize ELSE DESBlockSize

\* the card's answer to the first frame is Enc(key, RndB) for a challenge RndB
\* (with the more-data status in the enveloped mode)
FirstAnswerCorrect(resp, key, bs, status) ==
    \E b \in Challenges(bs) : resp = Answer(CardEncrypt(key, b) \o status)

\* the card's answer to the second frame is Enc(key, rotateLeft(RndA))
SecondAnswerCorrect(resp, key, rndA, status) ==
    resp = Answer(CBCEncrypt(key, Repeat(0, Len(rndA)), rotateLeft(rndA), Len(rndA))
                    \o status)

\* C1: when the card answers the first frame with Enc(key, RndB) and the
\* second with Enc(key, rotateLeft(RndA)), the handshake goes on after the
\* first answer and ends without error and with a session (desfire) or the
\* authenticated flag (ultralight) after the second, for AES keys, 16-byte and
\* 24-byte 3DES keys, unless the host's random source failed.
C1_CorrectCardAuthenticates ==
    [][ /\ \A c \in Callers :
            /\ ( /\ dfPc[c] \in {"aes1", "des1"}
                 /\ dfPc'[c] # dfPc[c]
                 /\ FirstAnswerCorrect(Last(dfTrx'[c]).resp, dfLoc[c].key,
                                       BlockSizeAt(dfPc[c]), <<\h91, \hAF>>)
                 /\ dfRet'[c].why # "failed to generate RndA" )
               => dfRet'[c].state = "running"
            /\ ( /\ dfPc[c] \in {"aes2", "des2"}
                 /\ dfPc'[c] # dfPc[c]
                 /\ SecondAnswerCorrect(Last(dfTrx'[c]).resp, dfLoc[c].key,
                                        dfLoc[c].rndA, <<\h91, \h00>>) )
               => dfRet'[c].state = "ok" /\ session'.live
        /\ ( /\ ucPc = "auth1"
             /\ ucPc' # ucPc
             /\ FirstAnswerCorrect(Last(ucTrx').resp, ucLoc.key, DESBlockSize, <<>>)
             /\ ucRet'.why # "failed to generate RndA" )
           => ucRet'.state = "running"
        /\ ( /\ ucPc = "auth2"
             /\ ucPc' # ucPc
             /\ SecondAnswerCorrect(Last(ucTrx').resp, ucLoc.key, ucLoc.rndA, <<>>) )
           => ucRet'.state = "ok" /\ ucAuth'
      ]_vars

\* the card's final reply passes the framing and holds one block or more whose
\* first block does not decrypt to rotateLeft(RndA)
FinalReplyWrong(payload, key, rndA) ==
    /\ ~payload.err
    /\ Len(payload.val) >= Len(rndA)
    /\ CBCDecrypt(key, Repeat(0, Len(rndA)), SubSeq(payload.val, 1, Len(rndA)), Len(rndA))
           # rotateLeft(rndA)

\* C2: when the decryption of the card's final reply differs from
\* rotateLeft(RndA), the call returns the authentication error, the session is
\* what it was before and the authenticated flag and key are untouched.
C2_MismatchRejected ==
    [][ /\ \A c \in Callers :
            ( /\ dfPc[c] \in {"aes2", "des2"}
              /\ dfPc'[c] # dfPc[c]
              /\ LET resp == Last(dfTrx'[c]).resp
                 IN  FinalReplyWrong(IF Enveloped(resp) THEN Ok(Payload(resp.data)) ELSE Err,
                                     dfLoc[c].key, dfLoc[c].rndA) )
            => /\ dfRet'[c] = RetErrOf("authentication failed: RndA mismatch")
               /\ session' = session
        /\ ( /\ ucPc = "auth2"
             /\ ucPc' # ucPc
             /\ FinalReplyWrong(Last(ucTrx').res, ucLoc.key, ucLoc.rndA) )
           => /\ ucRet' = RetErrOf("authentication failed: RndA mismatch")
              /\ ucAuth' = ucAuth /\ ucKey' = ucKey
      ]_vars

\* C2 happens: a handshake was answered correctly up to one changed byte of
\* the final reply, and ended with the authentication error and no session
C2_Witness ==
    /\ dfRet[1] = RetErrOf("authentication failed: RndA mismatch")
    /\ Len(dfTrx[1]) = 2
    /\ Enveloped(dfTrx[1][2].resp)
    /\ ~session.live

\* the first frame on the wire opens a handshake
HandshakeOnWire(w) ==
    /\ Len(w) > 0
    /\ \/ /\ w[1].frame[1] = \h90
          /\ w[1].frame[2] \in {CmdAuthenticateAES, CmdAuthenticateISO}
       \/ w[1].frame[1] = CmdAuthenticate1

\* the exchange failed in transport or framing, or brought less than a block
ExchangeFailed(res, bs) == res.err \/ Len(res.val) < bs

\* C3: when an exchange of a handshake fails (transport, framing, too short),
\* the call ends there with an error, sends nothing more and leaves the
\* session as it was; and a handshake puts at most two frames on the wire,
\* the second being the continuation frame, never the first again.
C3_AbortOnFailure ==
    [][ /\ \A c \in Callers :
            ( /\ dfPc[c] \in {"aes1", "aes2", "des1", "des2"}
              /\ dfPc'[c] # dfPc[c]
              /\ LET resp == Last(dfTrx'[c]).resp
                 IN  ExchangeFailed(IF Enveloped(resp) THEN Ok(Payload(resp.data)) ELSE Err,
                                    BlockSizeAt(dfPc[c])) )
            => /\ dfPc'[c] = "idle"
               /\ dfRet'[c].state = "err"
               /\ wire' = wire
               /\ session' = session
        /\ ( /\ ucPc \in {"auth1", "auth2"}
             /\ ucPc' # ucPc
             /\ LET resp == Last(ucTrx').resp
                IN  ~resp.ok \/ Len(resp.data) < DESBlockSize )
           => /\ ucPc' = "idle"
              /\ ucRet'.state = "err"
              /\ wire' = wire
              /\ ucAuth' = ucAuth /\ ucKey' = ucKey
        /\ HandshakeOnWire(wire') =>
              /\ Len(wire') <= 2
              /\ Len(wire') = 2 =>
                    /\ wire'[2].frame # wire'[1].frame
                    /\ CmdAdditionalFrame \in {wire'[2].frame[1], wire'[2].frame[2]}
      ]_vars

\* C3 happens: the second exchange of a handshake failed in the framing, the
\* call returned an error, two frames are on the wire and there is no session
C3_Witness ==
    /\ HandshakeOnWire(wire)
    /\ Len(wire) = 2
    /\ Len(dfTrx[1]) = 2
    /\ ~Enveloped(dfTrx[1][2].resp)
    /\ dfRet[1] = RetErrOf("authenticate step 2 failed")
    /\ ~session.live

\* C4: the second handshake frame is 0xAF followed by the zero-IV CBC
\* encryption of RndA followed by rotateLeft(RndB) and nothing else: two
\* blocks of ciphertext.
C4_SecondFrameTwoBlocks ==
    /\ \A c \in Callers :
        dfPc[c] \in {"aes2", "des2"} =>
            LET bs    == BlockSizeAt(dfPc[c])
                frame == wire[Len(wire)].frame
                data  == SubSeq(frame, 6, Len(frame) - 1)
            IN  /\ frame[2] = CmdAdditionalFrame
                /\ Len(data) = 2 * bs
                /\ data = CBCEncrypt(dfLoc[c].key, Repeat(0, bs),
                                     dfLoc[c].rndA \o rotateLeft(dfLoc[c].rndB), bs)
    /\ ucPc = "auth2" =>
            LET frame == wire[Len(wire)].frame
                data  == SubSeq(frame, 2, Len(frame))
            IN  /\ frame[1] = CmdAuthenticate2
                /\ Len(data) = 2 * DESBlockSize
                /\ data = CBCEncrypt(ucLoc.key, Repeat(0, DESBlockSize),
                                     ucLoc.rndA \o ul_rotateLeft(ucLoc.rndB), DESBlockSize)

\* the payload the native-mode exchange is to return for a response
NativePayload(bytes) ==
    IF Len(bytes) >= 2 /\ StatusPair(bytes) = <<\h90, \h00>> THEN Payload(bytes)
    ELSE bytes

\* C9: the native-mode exchange returns, for every response that is not
\* empty, the response without a trailing 90 00, or else all of it; and
\* WritePage succeeds when the card answers with the single byte 0x0A.
C9_NativeExchange ==
    /\ \A i \in 1..Len(ucTrx) :
          (ucTrx[i].resp.ok /\ Len(ucTrx[i].resp.data) >= 1)
              => ucTrx[i].res = Ok(NativePayload(ucTrx[i].resp.data))
    /\ ( /\ Len(wire) = 1
         /\ wire[1].frame[1] = CmdWrite
         /\ ucTrx = <<[resp |-> Answer(<<\h0A>>), res |-> UltralightC_Transceive(Answer(<<\h0A>>))]>> )
       => ucRet = RetOk(<<>>)

---------------------------------------------------------------------------
(* Properties of the card identification                                   *)

\* the family a frame of the identification probes: 1 DESFire version query,
\* 2 Classic key load and authentication, 3 read of the capability-container
\* page, 4 plain page read, 5 raw attribute exchange, 0 no probe
ProbeFamily(frame) ==
    IF frame \in {DESFireVersionFrame, DESFireMoreFrame} THEN 1
    ELSE IF frame \in {LoadKeyFrame(\h00, Repeat(\hFF, 6)),
                       ClassicAuthFrame(\h40, \h60, \h00),
                       ClassicAuthFrame(\h00, \h60, \h00)} THEN 2
    ELSE IF frame = ReadPageFrame(3) THEN 3
    ELSE IF frame = UltralightReadFrame THEN 4
    ELSE IF frame = SelectAllFrame THEN 5
    ELSE 0

\* the frames Connect sent after the UID query
ProbesSent == 2..Len(wire)

\* C5: the probes of a Connect go out in the order DESFire, Classic,
\* capability container, plain page read, raw exchange; and once the DESFire
\* probe has succeeded no probe of a later family is sent.
C5_ProbeOrder ==
    /\ \A i \in ProbesSent : \A j \in ProbesSent :
          (i < j /\ ProbeFamily(wire[i].frame) > 0 /\ ProbeFamily(wire[j].frame) > 0)
              => ProbeFamily(wire[i].frame) <= ProbeFamily(wire[j].frame)
    /\ rdLoc.isDESFire => \A i \in ProbesSent : ProbeFamily(wire[i].frame) <= 1

\* the card stayed in the field and Connect returned without error
Identified == rdPc = "idle" /\ rdRet.state = "ok" /\ present

\* C6: a card whose DESFire version probe fails and whose 4K trailer
\* authenticates with the factory key is reported as MIFARE Classic 4K, 4096
\* bytes, SAK 18, ATQA 00 02, whatever it answers otherwise, and no
\* capability-container or plain page read follows the Classic probe.
C6_Classic4K ==
    ( /\ Identified
      /\ ~tryDESFireVersion(card.desfire)
      /\ classicAccepted(card.loadkey)
      /\ classicAccepted(card.auth4k) )
    => /\ rd.type = TypeString(MIFARE_CLASSIK_4K, "4KB, CRYPTO1")
       /\ rd.capacity = 4096
       /\ rd.sak = \h18
       /\ rd.atqa = <<\h00, \h02>>
       /\ \A i \in ProbesSent : \A j \in ProbesSent :
             (i < j /\ ProbeFamily(wire[i].frame) = 2)
                 => ProbeFamily(wire[j].frame) \notin {3, 4}

\* the capacities of the capability-container table
ContainerCapacities == {144, 504, 888, 496}

\* C7: what a Connect reports comes from the exchanges of that Connect: a
\* capacity of the capability-container table is reported only when the
\* container page was read from the card during that Connect.
C7_NoStaleValues ==
    (rdPc = "idle" /\ rdRet.state = "ok" /\ rd.capacity \in ContainerCapacities)
        => \E i \in ProbesSent : wire[i].frame = ReadPageFrame(3)

---------------------------------------------------------------------------
(* Properties of the DESFire commands and of the session                   *)

\* the card's answer carries the more-data status 91 AF
MoreData(resp) ==
    resp.ok /\ Len(resp.data) >= 2 /\ StatusPair(resp.data) = <<\h91, \hAF>>

\* the continuation frame: opcode AF with an empty payload
ContinuationFrame == DESFire_Transceive_apdu(<<CmdAdditionalFrame>>)

\* the operation caller c runs, or ran last, on the DESFire object is one of
\* the commands whose first frame carries an opcode of ops
DfCommand(c, ops) ==
    /\ OnDESFire
    /\ Len(wire) > 0
    /\ wire[1].by = c
    /\ wire[1].frame[2] \in ops

\* C11: in GetVersion, GetApplicationIDs and ReadData every response with the
\* more-data status is followed by the continuation frame AF with an empty
\* payload, and a continuation frame is sent only after a response with the
\* more-data status.
C11_ContinuationOnMoreData ==
    \A c \in Callers :
        DfCommand(c, {CmdGetVersion, CmdGetApplicationIDs, CmdReadData}) =>
            LET t == dfTrx[c]
            IN  /\ \A i \in 1..Len(t) :
                      MoreData(t[i].resp)
                          => Len(wire) > i /\ wire[i + 1].frame = ContinuationFrame
                /\ \A i \in 2..Len(wire) :
                      wire[i].frame = ContinuationFrame
                          => i - 1 <= Len(t) /\ MoreData(t[i - 1].resp)

\* C12: every frame of the enveloped mode is 90, opcode, 00, 00, a length
\* byte, the parameter bytes and a trailing 00, the length byte being the
\* number of parameter bytes; and a response that ends in a success status is
\* returned without its status pair.
C12_FramingRoundTrip ==
    OnDESFire =>
        /\ \A i \in 1..Len(wire) :
              LET f == wire[i].frame
              IN  /\ Len(f) >= 6
                  /\ f[1] = \h90 /\ f[3] = \h00 /\ f[4] = \h00
                  /\ f[Len(f)] = \h00
                  /\ f[5] = Len(f) - 6
        /\ \A c \in Callers : \A i \in 1..Len(dfTrx[c]) :
              LET resp == dfTrx[c][i].resp
              IN  (Enveloped(resp) /\ StatusPair(resp.data) \in {<<\h91, \h00>>, <<\h90, \h00>>})
                      => dfTrx[c][i].res = Ok(Payload(resp.data))

\* C13: once SelectApplication has returned without error there is no live
\* session.
C13_SelectEndsSession ==
    ( /\ DfCommand(1, {CmdSelectApplication})
      /\ dfPc[1] = "idle"
      /\ dfRet[1].state = "ok" )
    => ~session.live

\* C15: a first handshake answer that passes the framing and whose payload is
\* not exactly one cipher block ends the handshake with an error and no
\* second frame is sent.
C15_FirstAnswerOneBlock ==
    [][ /\ \A c \in Callers :
            ( /\ dfPc[c] \in {"aes1", "des1"}
              /\ dfPc'[c] # dfPc[c]
              /\ LET resp == Last(dfTrx'[c]).resp
                 IN  Enveloped(resp) /\ Len(Payload(resp.data)) # BlockSizeAt(dfPc[c]) )
            => /\ dfRet'[c].state = "err"
               /\ wire' = wire
        /\ ( /\ ucPc = "auth1"
             /\ ucPc' # ucPc
             /\ LET res == Last(ucTrx').res
                IN  ~res.err /\ Len(res.val) # DESBlockSize )
           => /\ ucRet'.state = "err"
              /\ wire' = wire
      ]_vars

\* C16: the session a successful handshake creates has an all-zero IV of one
\* cipher block, a command counter of 0 and, for AES, a session key equal to
\* the key the caller passed.
C16_FreshSession ==
    [][ \A c \in Callers :
            ( /\ dfPc[c] \in {"aes2", "des2"}
              /\ dfRet'[c].state = "ok" )
            => /\ session'.live
               /\ session'.iv = Repeat(0, BlockSizeAt(dfPc[c]))
               /\ session'.cmdCounter = 0
               /\ session'.keyType
                     = (IF dfPc[c] = "aes2" THEN KeyTypeAES ELSE KeyType3DES)
               /\ dfPc[c] = "aes2" => session'.sessionKey = dfLoc[c].key
      ]_vars

\* C16 happens: an AES handshake with the key 00 01 .. 0F has just succeeded
C16_Witness ==
    /\ DfCommand(1, {CmdAuthenticateAES})
    /\ Len(wire) = 2
    /\ dfRet[1].state = "ok"
    /\ session.live
    /\ session.sessionKey = KeyAESRamp
    /\ session.iv = Repeat(0, AESBlockSize)

\* C17: after a handshake and a command sent under the session (ReadData,
\* WriteData) the session's command counter has counted that command.
C17_CounterCounts ==
    ( /\ DfCommand(1, {CmdReadData, CmdWriteData})
      /\ dfPc[1] = "idle"
      /\ dfRet[1].state = "ok"
      /\ session.live )
    => session.cmdCounter >= 1

---------------------------------------------------------------------------
(* Properties of the UltralightC object                                    *)

\* the positions inside the page writes of SetAuthConfig and ChangeKey
AuthOnlyPcs == {"auth0w", "auth1w", "keyw"}

\* the errors by which SetAuthConfig and ChangeKey refuse a caller
AuthRequired ==
    {"authentication required to change auth config",
     "authentication required to change key"}

---------------------------------------------------------------------------
(* Properties of the probes of the card identification                     *)

\* the frame sent last
LastFrame(w) == w[Len(w)].frame

\* C18: the Classic probe loads the key FF FF FF FF FF FF and authenticates
\* block 0x40, then block 0x00; an accepted 0x40 gives 4096 bytes, SAK 18,
\* ATQA 00 02, an accepted 0x00 alone gives 1024 bytes, SAK 08, ATQA 00 04;
\* a rejected key load, or both authentications rejected, sends the plain
\* page read of the next family and Connect goes on without error.
C18_ClassicProbe ==
    [][ /\ rdPc' = "loadkey" => LastFrame(wire') = LoadKeyFrame(\h00, Repeat(\hFF, 6))
        /\ (rdPc = "loadkey" /\ rdPc' # rdPc) =>
              IF present' /\ card.loadkey = Accepted
              THEN rdPc' = "auth4k" /\ LastFrame(wire') = ClassicAuthFrame(\h40, \h60, \h00)
              ELSE /\ rdPc' = "ul" /\ LastFrame(wire') = UltralightReadFrame
                   /\ rdRet' = Running
        /\ (rdPc = "auth4k" /\ rdPc' # rdPc) =>
              IF present' /\ card.auth4k = Accepted
              THEN rdPc' = "rb4k" /\ LastFrame(wire') = ReadBlockFrame(0)
              ELSE rdPc' = "auth1k" /\ LastFrame(wire') = ClassicAuthFrame(\h00, \h60, \h00)
        /\ (rdPc = "auth1k" /\ rdPc' # rdPc) =>
              IF present' /\ card.auth1k = Accepted
              THEN rdPc' = "rb1k" /\ LastFrame(wire') = ReadBlockFrame(0)
              ELSE /\ rdPc' = "ul" /\ LastFrame(wire') = UltralightReadFrame
                   /\ rdRet' = Running
        /\ (rdPc = "rb4k" /\ rdPc' # rdPc /\ present' /\ ~rdLoc.isDESFire) =>
              /\ rdRet'.state = "ok"
              /\ rd'.capacity = 4096 /\ rd'.sak = \h18 /\ rd'.atqa = <<\h00, \h02>>
              /\ rd'.type = "MIFARE Classic 4K (4KB, CRYPTO1)"
        /\ (rdPc = "rb1k" /\ rdPc' # rdPc /\ present' /\ ~rdLoc.isDESFire) =>
              /\ rdRet'.state = "ok"
              /\ rd'.capacity = 1024 /\ rd'.sak = \h08 /\ rd'.atqa = <<\h00, \h04>>
              /\ rd'.type = "MIFARE Classic 1K (1KB, CRYPTO1)"
      ]_vars

\* C18 happens: the key load was accepted, block 0x40 rejected, block 0x00
\* accepted, and the card is reported with 1024 bytes
C18_Witness ==
    /\ Identified
    /\ card.name = "Classic 1K"
    /\ \E i \in ProbesSent :
          /\ i + 2 <= Len(wire)
          /\ wire[i].frame = LoadKeyFrame(\h00, Repeat(\hFF, 6))
          /\ wire[i + 1].frame = ClassicAuthFrame(\h40, \h60, \h00)
          /\ wire[i + 2].frame = ClassicAuthFrame(\h00, \h60, \h00)
    /\ rd.capacity = 1024 /\ rd.sak = \h08 /\ rd.atqa = <<\h00, \h04>>

\* the capability-container table: signature and declared capacity
ContainerTable ==
    {[cc |-> CCNTAG213, size |-> 144], [cc |-> CCNTAG215, size |-> 504],
     [cc |-> CCNTAG216, size |-> 888], [cc |-> CCNTAG215Alt, size |-> 496]}

\* C19: a card that is no DESFire and whose page 3 reads as one of the four
\* signatures of the table is reported as an Ultralight/NTAG family member
\* with the capacity the table declares for the signature.
C19_ContainerMatch ==
    \A e \in ContainerTable :
        ( /\ Identified
          /\ ~tryDESFireVersion(card.desfire)
          /\ card.page3 = Answer(e.cc \o OKStatus) )
        => /\ rd.capacity = e.size
           /\ rd.type \in {TypeString(MIFARE_ULTRALIGHT, "Check CC for specifics"),
                           TypeString(NTAG, SizeString(e.size))}

\* the capacity the storage-size code stands for
StorageOfCode(code) ==
    IF code = \h16 THEN 2048 ELSE IF code = \h18 THEN 4096
    ELSE IF code = \h1A THEN 8192 ELSE 0

\* C20: a card recognised as DESFire is never reported with an empty name;
\* when both version frames arrive, the capacity follows the storage-size code
\* of the second frame and the name is V1 for software-major 01, and for
\* software-major 03 V3 if the hardware-major of the first frame is 33, else V2.
C20_DESFireReport ==
    (Identified /\ tryDESFireVersion(card.desfire)) =>
        /\ rd.type # " (0B)"
        /\ ( /\ card.dfinfo1.ok /\ Len(card.dfinfo1.data) >= 4
             /\ Last(card.dfinfo1.data) = \hAF
             /\ card.dfinfo2.ok /\ Len(card.dfinfo2.data) >= 6 ) =>
               LET sw   == card.dfinfo2.data[4]
                   hw   == card.dfinfo1.data[4]
                   size == StorageOfCode(card.dfinfo2.data[6])
               IN  /\ rd.capacity = size
                   /\ sw = \h01 => rd.type = "DESFire V1 (" \o SizeString(size) \o ")"
                   /\ (sw = \h03 /\ hw = \h33)
                         => rd.type = "DESFire V3 (" \o SizeString(size) \o ")"
                   /\ (sw = \h03 /\ hw # \h33)
                         => rd.type = "DESFire V2 (" \o SizeString(size) \o ")"

---------------------------------------------------------------------------
(* Properties of the failure handling of the identification                *)

\* the status pairs by which a card refuses a command
FailureStatus == {<<\h63, \h00>>, <<\h6A, \h81>>, <<\h91, \h1C>>, <<\h91, \hAE>>}

\* the answer arrived and consists of or ends in a failure status
Refusal(r) == r.ok /\ Len(r.data) >= 2 /\ StatusPair(r.data) \in FailureStatus

\* C21: a plain page read, or a DESFire version query, answered with a
\* response that consists of or ends in a failure status does not report
\* its family: the next probe follows it (the raw attribute exchange after
\* the page read, the read of block 0 after the version query).
C21_FailureAbsorbed ==
    [][ /\ (rdPc = "ul" /\ rdPc' # rdPc /\ present' /\ Refusal(card.ul)) =>
              rdPc' = "raw" /\ LastFrame(wire') = SelectAllFrame
        /\ (rdPc = "desfire" /\ rdPc' # rdPc /\ present' /\ Refusal(card.desfire)) =>
              rdPc' = "block0" /\ LastFrame(wire') = ReadBlockFrame(0)
      ]_vars

\* every probe of the card, the raw attribute exchange included, is answered
\* with a well-formed negative or short response
AllProbesNegative(k) ==
    /\ Refusal(k.desfire) /\ Len(k.desfire.data) = 2
    /\ Refusal(k.block0) /\ Refusal(k.page) /\ Refusal(k.page3)
    /\ Refusal(k.loadkey)
    /\ k.ul.ok /\ Len(k.ul.data) < 2
    /\ k.raw.ok /\ (Refusal(k.raw) \/ Len(k.raw.data) < 4)

\* C22: Connect to a card that tells its UID and stays in the field returns
\* no error; and when every probe is answered with a well-formed negative or
\* short response the card is reported as Unknown.
C22_ErrorOnlyOnTransportFailure ==
    (rdPc = "idle" /\ rdRet.state \in {"ok", "err"} /\ present /\ ~getUID(card.uid).err) =>
        /\ rdRet.state = "ok"
        /\ AllProbesNegative(card) =>
              rd.type = UnknownType(rd.atqa, rd.sak)

\* C23: when the raw attribute exchange decides the attributes, the ATQA is
\* the first two bytes and the SAK the third byte of the payload, the
\* response without its two status bytes.
C23_RawAttributesFromPayload ==
    ( /\ Identified
      /\ Len(wire) > 2
      /\ LastFrame(wire) = SelectAllFrame
      /\ ~tryDESFireVersion(card.desfire) ) =>
        /\ Len(Payload(card.raw.data)) >= 3
        /\ rd.atqa = Slice(Payload(card.raw.data), 0, 2)
        /\ rd.sak = Payload(card.raw.data)[3]

\* C28: no answer of a card ends Connect in a run-time panic.
C28_NoPanic == rdPc # "panic"

---------------------------------------------------------------------------
(* Properties of the key material and of the file commands                 *)

\* C29: with a 16-byte key the triple-DES helpers return without a key-size
\* error, and Authenticate3DES and UltralightC.Authenticate, having received
\* an encrypted RndB of 8 bytes, send the second frame.
C29_TwoKeyMaterialAccepted ==
    [][ /\ \A c \in Callers :
            ( /\ dfPc[c] = "des1"
              /\ dfPc'[c] # dfPc[c]
              /\ Len(dfLoc[c].key) = 16
              /\ Enveloped(Last(dfTrx'[c]).resp)
              /\ Len(Payload(Last(dfTrx'[c]).resp.data)) >= DESBlockSize
              /\ dfRet'[c].why # "failed to generate RndA" )
            => /\ ~decrypt3DES(Slice(Last(dfTrx'[c]).resp.data, 0, DESBlockSize),
                               dfLoc[c].key).err
               /\ dfPc'[c] = "des2"
               /\ Len(wire') = Len(wire) + 1
        /\ ( /\ ucPc = "auth1"
             /\ ucPc' # ucPc
             /\ Len(ucLoc.key) = 16
             /\ Last(ucTrx').resp.ok
             /\ Len(Last(ucTrx').resp.data) >= DESBlockSize
             /\ ucRet'.why # "failed to generate RndA" )
           => /\ ~ul_decrypt3DES(Slice(Last(ucTrx').resp.data, 0, DESBlockSize),
                                 ucLoc.key).err
              /\ ucPc' = "auth2"
              /\ Len(wire') = Len(wire) + 1
      ]_vars

\* a number below 2^24 as three bytes, the least significant first
LittleEndian3(v) == <<v % 256, (v \div 256) % 256, (v \div 65536) % 256>>

\* C30: the command of ReadData and WriteData carries, after the file
\* number, the offset and then the length (of the data, for WriteData) as
\* three bytes each, the least significant first.
C30_OffsetAndLengthEncoded ==
    \A c \in Callers :
        (dfPc[c] \in {"rdata", "wdata"} /\ LastFrame(wire)[2] \in {CmdReadData, CmdWriteData}) =>
            /\ Slice(LastFrame(wire), 6, 9) = LittleEndian3(dfLoc[c].args[1])
            /\ Slice(LastFrame(wire), 9, 12) = LittleEndian3(dfLoc[c].args[2])

---------------------------------------------------------------------------
(* Properties of the card database                                         *)

\* the value of a hexadecimal digit, -1 for any other character
HexValue(ch) ==
    LET upper == <<"0", "1", "2", "3", "4", "5", "6", "7",
                   "8", "9", "A", "B", "C", "D", "E", "F">>
    IN  IF \E v \in 1..16 : upper[v] = ch THEN (CHOOSE v \in 1..16 : upper[v] = ch) - 1
        ELSE IF \E v \in 1..16 : HexDigits[v] = ch
        THEN (CHOOSE v \in 1..16 : HexDigits[v] = ch) - 1
        ELSE 0 - 1

\* the i-th half byte of an ATR
HalfByte(atr, i) ==
    IF i % 2 = 1 THEN atr[(i + 1) \div 2] \div 16 ELSE atr[i \div 2] % 16

\* the stored string and the ATR agree on their first m characters
AgreeUpTo(stored, atr, m) ==
    \A i \in 1..m : HexValue(stored[i]) = HalfByte(atr, i)

\* the stored string spells exactly the bytes of the ATR
Spells(stored, atr) ==
    Len(stored) = 2 * Len(atr) /\ AgreeUpTo(stored, atr, Len(stored))

\* the least element of a non-empty set of numbers
Least(S) == CHOOSE i \in S : \A j \in S : i <= j

\* the names of the entries at the positions S, in the order of the positions
NamesAt(entries, S) ==
    [j \in 1..Cardinality(S) |->
        entries[CHOOSE i \in S : Cardinality({x \in S : x < i}) = j - 1].Name]

\* the elements of a sequence
Elements(seq) == {seq[i] : i \in 1..Len(seq)}

\* C24: Detect returns the name of the first entry, in load order, whose
\* stored ATR spells exactly the given bytes, never that of an entry that
\* shares only a prefix, and "Unknown Card" when there is none; the database
\* is left as it was.
C24_DetectExactMatch ==
    [][ (dbRet' # dbRet /\ dbRet'.op = "Detect") =>
            /\ db' = db
            /\ LET hits == {i \in 1..Len(db) : Spells(db[i].ATR, dbRet'.atr)}
               IN  dbRet'.name = IF hits = {} THEN UnknownCard ELSE db[Least(hits)].Name
      ]_vars

\* C24 happens: two entries spell the ATR, a third one is longer and begins
\* with it, and Detect returned the name of the first
C24_Witness ==
    /\ dbRet.op = "Detect"
    /\ dbRet.atr = <<\h3B, \h8F, \h80, \h01>>
    /\ Cardinality({i \in 1..Len(db) : Spells(db[i].ATR, dbRet.atr)}) >= 2
    /\ \E i \in 1..Len(db) :
          /\ Len(db[i].ATR) > 2 * Len(dbRet.atr)
          /\ AgreeUpTo(db[i].ATR, dbRet.atr, 2 * Len(dbRet.atr))
          /\ db[i].Name # dbRet.name
    /\ dbRet.name = db[Least({i \in 1..Len(db) : Spells(db[i].ATR, dbRet.atr)})].Name
    /\ dbRet.name = <<"C", "a", "r", "d", " ", "A">>

\* the shorter of the stored string and the ATR has n bytes or more, and the
\* two agree over its whole length
AgreeOnLeadingBytes(stored, atr, n) ==
    LET m == IF Len(stored) < 2 * Len(atr) THEN Len(stored) ELSE 2 * Len(atr)
    IN  m >= 2 * n /\ AgreeUpTo(stored, atr, m)

---------------------------------------------------------------------------
(* Properties of rotateLeft                                                *)

\* C26: rotateLeft moves the first byte of a non-empty byte string to the
\* end and leaves its argument as it was; applied as many times as the
\* string has bytes it gives the string back; 00..0F becomes 01..0F 00.
C26_RotateLeft ==
    [][ /\ rot'.data = rot.data
        /\ rot'.dfCalls = 1 => rot'.df = Tail(rot.data) \o <<Head(rot.data)>>
        /\ rot'.ulCalls = 1 => rot'.ul = Tail(rot.data) \o <<Head(rot.data)>>
        /\ rot'.dfCalls = Len(rot.data) => rot'.df = rot.data
        /\ rot'.ulCalls = Len(rot.data) => rot'.ul = rot.data
        /\ (rot.data = Ramp(\h00, 16) /\ rot'.dfCalls = 1 /\ rot'.ulCalls = 1) =>
              /\ rot'.df = Ramp(\h01, 15) \o <<\h00>>
              /\ rot'.ul = Ramp(\h01, 15) \o <<\h00>>
      ]_vars

\* C26 happens: 00..0F has gone through desfire's rotateLeft sixteen times
\* and through ultralight's once
C26_Witness ==
    /\ rot.data = Ramp(\h00, 16)
    /\ rot.dfCalls = 16 /\ rot.df = rot.data
    /\ rot.ulCalls = 1 /\ rot.ul = Ramp(\h01, 15) \o <<\h00>>

---------------------------------------------------------------------------
(* Properties of two callers sharing one DESFire object                    *)

\* every frame on the wire was sent by caller c
OnlyFramesOf(c, w) == \A i \in 1..Len(w) : w[i].by = c

\* C27: nothing in the package keeps two operations apart.  A caller's step
\* puts its frame on the wire right after the frames already there, also
\* while the other caller is between two frames of its own operation, and a
\* handshake that succeeds replaces the one session field whoever wrote it
\* before; a caller that runs its operation while the other is idle has all
\* its frames next to each other, with no frame of the other in between.
C27_NoExclusion ==
    [][ \A c \in Callers :
          /\ ( /\ dfPc'[c] # dfPc[c]
               /\ dfPc'[c] # "idle"
               /\ \E d \in Callers \ {c} : dfPc[d] # "idle" )
             => /\ Len(wire') = Len(wire) + 1
                /\ SubSeq(wire', 1, Len(wire)) = wire
                /\ wire'[Len(wire')].by = c
          /\ (dfPc[c] = "aes2" /\ dfRet'[c].state = "ok")
             => /\ session'.live
                /\ session'.key = dfLoc[c].key
          /\ ( /\ dfPc'[c] # dfPc[c]
               /\ \A d \in Callers \ {c} : dfPc[d] = "idle"
               /\ dfPc[c] = "idle" \/ OnlyFramesOf(c, wire) )
             => OnlyFramesOf(c, wire')
      ]_vars

\* C27 happens: the first frame of caller 2's handshake went out between the
\* first and the second frame of caller 1's, both handshakes succeeded and
\* wrote the session, which holds the key of the one that finished last
C27_Witness ==
    /\ Len(wire) = 4
    /\ wire[1].by = 1 /\ wire[1].frame[2] = CmdAuthenticateAES
    /\ wire[2].by = 2 /\ wire[2].frame[2] = CmdAuthenticateAES
    /\ wire[3].by = 1 /\ wire[3].frame[2] = CmdAdditionalFrame
    /\ wire[4].by = 2 /\ wire[4].frame[2] = CmdAdditionalFrame
    /\ dfPc[1] = "idle" /\ dfRet[1].state = "ok"
    /\ dfPc[2] = "idle" /\ dfRet[2].state = "ok"
    /\ session.live
    /\ session.key = KeyAESZero
    /\ \E i \in 1..Len(dfTrx[2]) : dfTrx[2][i].resp
            = Answer(CardEncrypt(KeyAESRamp, Ramp(0, AESBlockSize)) \o <<\h91, \hAF>>)

---------------------------------------------------------------------------
(* Properties of the state an authentication leaves behind                 *)

\* caller c's authentication has just returned an error
DfAuthFailed(c) ==
    /\ dfRet'[c].state = "err"
    /\ \/ dfPc[c] \in {"aes1", "aes2", "des1", "des2"}
       \/ /\ dfPc[c] = "idle"
          /\ dfRet'[c].why \in {"AES key must be 16 bytes", "3DES key must be 16 or 24 bytes"}
          /\ dfTrx'[c] = NoTrx

\* C31: an authentication that returns an error leaves the session, the
\* authenticated flag and the stored key as they were before the call, so
\* that an earlier session survives the failed attempt; and no step resets
\* the authenticated flag once it is set.
C31_FailedAuthKeepsState ==
    [][ /\ \A c \in Callers : DfAuthFailed(c) => session' = session
        /\ \A c \in Callers :
              (dfPc[c] \in {"idle", "aes1", "des1"} /\ dfLoc'[c].op \in
                    {"AuthenticateAES", "Authenticate3DES"}) => session' = session
        /\ (ucRet'.state = "err" /\ (ucPc \in {"auth1", "auth2"} \/ ucLoc'.op = "Authenticate"))
              => (ucAuth' = ucAuth /\ ucKey' = ucKey)
        /\ ucLoc'.op = "Authenticate" => (ucAuth' = ucAuth /\ ucKey' = ucKey)
        /\ ucAuth => ucAuth'
      ]_vars

\* C31 happens: a handshake with the key 00 01 .. 0F succeeded, a later one
\* failed on the card's last reply (RndA mismatch), and the session of the
\* first is still there
C31_Witness ==
    /\ DfCommand(1, {CmdAuthenticateAES, CmdAuthenticateISO})
    /\ Len(wire) = 2
    /\ dfPc[1] = "idle"
    /\ dfRet[1] = RetErrOf("authentication failed: RndA mismatch")
    /\ session.live
    /\ session.key = KeyAESRamp

---------------------------------------------------------------------------
(* Properties of the CardInfo after a failed Connect                       *)

\* C32: after a Connect that returns an error the CardInfo does not hold
\* the UID of the card just presented together with the type, SAK, ATQA,
\* ATR or capacity stored for a card connected before.
C32_CardInfoAtomic ==
    [][ (rdPc # "idle" /\ rdPc' = "idle" /\ rdRet'.state = "err") =>
            \/ rd'.uid = rdLoc.uidAtCall
            \/ /\ rd'.type = "" /\ rd'.atr = <<>> /\ rd'.atqa = <<>>
               /\ rd'.sak = 0 /\ rd'.capacity = 0
      ]_vars

\* the pages first .. first + n - 1 of a card whose every page is readable
RECURSIVE ConsecutivePages(_, _)
ConsecutivePages(first, n) ==
    IF n <= 0 THEN <<>>
    ELSE PageContent(first) \o ConsecutivePages(first + 1, n - 1)

\* C33: a ReadPages that returns without error returns exactly numPages*4
\* bytes, the contents of the numPages consecutive pages from startPage on;
\* it never returns a shorter result with a nil error
C33_ReadPagesComplete ==
    [][ (ucPc = "reads" /\ ucRet'.state = "ok") =>
            /\ Len(ucRet'.val) = ucLoc.args[2] * PageSize
            /\ ucRet'.val = ConsecutivePages(ucLoc.args[1], ucLoc.args[2])
      ]_vars

\* C34: a WriteUserMemory that returns the boundary error or rejects the
\* start page has sent no WritePage command, and every page a call writes
\* lies in 4..39
C34_BoundaryFailureWritesNothing ==
    [][ /\ (/\ ucRet'.state = "err"
            /\ ucRet'.why \in {"data exceeds user memory boundary",
                               "start page must be between 4 and 39"})
               => wire' = <<>>
        /\ ucPc' = "wum" =>
               \A k \in 1..Len(wire') :
                   /\ wire'[k].frame[1] = CmdWrite
                   /\ wire'[k].frame[2] \in UserMemoryStart..UserMemoryEnd
      ]_vars

\* the write of key page 44 + i as the documented layout of key k asks for it
KeyPageWrite(k, i) ==
    <<CmdWrite, KeyPage + i>> \o
        [j \in 1..4 |-> IF i < 2 THEN k[8 - (4 * i + j - 1)]
                                 ELSE k[16 - (4 * (i - 2) + j - 1)]]

\* the preceding call was an Authenticate that the card answered with an
\* encrypted RndB and that stopped only at the construction of the cipher
CardAuthenticated ==
    /\ Len(wire) = 1 /\ wire[1].frame = <<CmdAuthenticate1, \h00>>
    /\ Len(ucTrx) = 1 /\ ~ucTrx[1].res.err /\ Len(ucTrx[1].res.val) >= 8
    /\ ucRet.why = "failed to decrypt RndB"

\* C38: ChangeKey, called with a 16-byte key k after the card was
\* authenticated to, writes pages 44, 45, 46, 47 in that order with bytes
\* k[7..0] then k[15..8]; the object's stored key becomes k only after the
\* four writes succeeded; and ReadKey, reading four pages laid out that way,
\* returns k
C38_KeyStoredReversed ==
    [][ /\ ( /\ ucPc = "idle" /\ CardAuthenticated
             /\ \/ ucLoc'.op = "ChangeKey"
                \/ ucRet'.why = "authentication required to change key" )
           => /\ ucPc' = "keyw"
              /\ wire' = <<[by |-> 1, frame |-> KeyPageWrite(ucLoc'.key, 0)]>>
        /\ ucPc = "keyw" =>
              /\ \A n \in 1..Len(wire') :
                    wire'[n].frame = KeyPageWrite(ucLoc.key, n - 1)
              /\ ucKey' # ucKey =>
                    /\ ucKey' = ucLoc.key
                    /\ Len(ucTrx') = 4
                    /\ \A n \in 1..4 : writePageAccepted(ucTrx'[n].resp)
        /\ (ucPc = "keyr" /\ ucRet'.state = "ok") =>
              \A k \in CardKeys :
                 (\A n \in 1..4 :
                     Slice(ucTrx'[n].res.val, 0, 4)
                        = Slice(KeyPageWrite(k, n - 1), 2, 6))
                 => ucRet'.val = k
      ]_vars

---------------------------------------------------------------------------
(* Properties of the Classic object                                        *)

\* the class and instruction bytes that open a frame
FrameKind(f) == <<f[1], f[2]>>

\* the bytes a successful ReadBlock answer carries before its status pair
BlockRead(r) == Slice(r.data, 0, Len(r.data) - 2)

\* C35: ChangeKeys starts no exchange with a Key A or Key B that is not 6
\* bytes or access bits that are not 4 bytes; the trailer write is the
\* fourth frame, after LoadKey, Authenticate and ReadBlock were answered with
\* success in that order; and the 16 bytes written are Key A, access bits,
\* Key B, where a nil key keeps the bytes read at positions 0..5 or 10..15
\* of the current trailer and nil access bits are written as FF 07 80 69
C35_TrailerWritten ==
    [][ /\ (clPc = "idle" /\ clPc' = "ck_load") =>
              /\ clLoc'.newKeyA.nil \/ Len(clLoc'.newKeyA.bytes) = 6
              /\ clLoc'.newKeyB.nil \/ Len(clLoc'.newKeyB.bytes) = 6
              /\ clLoc'.accessBits.nil \/ Len(clLoc'.accessBits.bytes) = 4
              /\ Len(wire') = 1
              /\ FrameKind(wire'[1].frame) = <<\hFF, \h82>>
        /\ (clPc = "ck_read" /\ clPc' = "ck_write") =>
              LET read    == BlockRead(clLoc'.rsp[3])
                  written == Slice(wire'[4].frame, 5, 21)
              IN  /\ Len(wire') = 4
                  /\ FrameKind(wire'[2].frame) = <<\hFF, \h86>>
                  /\ FrameKind(wire'[3].frame) = <<\hFF, \hB0>>
                  /\ FrameKind(wire'[4].frame) = <<\hFF, \hD6>>
                  /\ \A n \in 1..2 : clLoc'.rsp[n] = Answer(<<\h90, \h00>>)
                  /\ ~Classic_ReadBlock(clLoc'.rsp[3]).err
                  /\ Len(wire'[4].frame) = 21
                  /\ IF clLoc.newKeyA.nil
                     THEN Len(read) >= 6 /\ Slice(written, 0, 6) = Slice(read, 0, 6)
                     ELSE Slice(written, 0, 6) = clLoc.newKeyA.bytes
                  /\ IF clLoc.accessBits.nil
                     THEN Slice(written, 6, 10) = <<\hFF, \h07, \h80, \h69>>
                     ELSE Slice(written, 6, 10) = clLoc.accessBits.bytes
                  /\ IF clLoc.newKeyB.nil
                     THEN Len(read) >= 16 /\ Slice(written, 10, 16) = Slice(read, 10, 16)
                     ELSE Slice(written, 10, 16) = clLoc.newKeyB.bytes
        /\ clPc' # "ck_write" =>
              \A n \in 1..Len(wire') : FrameKind(wire'[n].frame) # <<\hFF, \hD6>>
      ]_vars

\* C36: for every sector number 0..255, GetSectorTrailerBlock returns 4s+3
\* and ChangeKeys addresses block 4s+3; nothing wraps, so two different
\* sectors never share a trailer block
C36_TrailerBlockOfSector ==
    /\ clRet.op = "GetSectorTrailerBlock" =>
          /\ clRet.block = 4 * clRet.sector + 3
          /\ \A t \in AllSectors \ {clRet.sector} :
                GetSectorTrailerBlock(t) # clRet.block
    /\ clLoc.op = "ChangeKeys" =>
          /\ clLoc.trailerBlock = 4 * clLoc.sector + 3
          /\ \A n \in 2..Len(wire) :
                wire[n].frame[IF n = 2 THEN 8 ELSE 4] = 4 * clLoc.sector + 3

\* C37: TryStandardKeys loads, for each entry it tries, the key of the
\* requested type (Key B for KeyTypeB, Key A for KeyTypeA) and authenticates
\* with that key type; it returns the name of an entry whose authentication
\* succeeded, and the empty string when none did or a key load failed
C37_RequestedKeyTypeTried ==
    [][ /\ clPc' = "ts_load" =>
              wire'[1].frame = LoadKeyCmd(\h00,
                    IF clLoc'.keyType = KeyTypeB THEN DefaultKeys[clLoc'.name].KeyB
                                                 ELSE DefaultKeys[clLoc'.name].KeyA)
        /\ clPc' = "ts_auth" =>
              wire'[2].frame = AuthenticateCmd(clLoc'.trailerBlock, clLoc'.keyType, \h00)
        /\ (clPc \in {"ts_load", "ts_auth"} /\ clPc' = "idle") =>
              IF clRet'.name # ""
              THEN clPc = "ts_auth" /\ clRet'.name = clLoc.name
              ELSE clPc = "ts_load" \/ clLoc.tried = DOMAIN DefaultKeys
      ]_vars

====
